---- MODULE Spec2Model ----
(***************************************************************************)
(* Model of script.js. Each part of the page is a state machine of its own *)
(* over its own variables, with its own specification; the variables of    *)
(* the other parts stay as they are on a page that does not have them.     *)
(*                                                                         *)
(*   Spec, FairSpec   the GitHub integration: the in-memory stats cache    *)
(*                    (App.github), fetchGitHubRepos, initGitHubIntegration*)
(*                    and the DOM rendering it drives                      *)
(*   TypewriterSpec   class TypewriterEffect                               *)
(*   ThrottleSpec     a function wrapped by throttle(func, delay)          *)
(*   DebounceSpec     a function wrapped by debounce(func, wait, immediate)*)
(*   FormSpec,        the contact form: the listeners of its fields,       *)
(*   FairFormSpec     handleFormSubmission and the timers and continuations*)
(*                    it leaves behind                                     *)
(*   InitSpec         initializeApp: its steps, its catch block and the    *)
(*                    loading screen                                       *)
(*                                                                         *)
(* Execution is the browser's single-threaded event loop: every action is  *)
(* one run-to-completion piece of code between two suspension points       *)
(* (a call up to its first await, the settling of one request's promise    *)
(* chain, the continuation after an await). The continuation of an await   *)
(* is a microtask: microtasks run in queue order, and the queue is drained *)
(* before the next network event is delivered.                             *)
(***************************************************************************)
EXTENDS Integers, Sequences, FiniteSets, TLC

\* ------------------------------------------------------------------ bounds
\* Number of initGitHubIntegration invocations in one page session.
MaxCalls == 2
\* Length of the repository list handed to fetchGitHubRepos.
MaxRepos == 2
\* Number of steps the clock may advance.
MaxTicks == 2

\* --------------------------------------------------------------- constants
\* One step of the clock: half the cache window.
ClockStep == 150 * 1000
\* App.github.cacheDuration
cacheDuration == 5 * 60 * 1000
\* The key of the single cache entry.
CacheKey == "repositories"
\* The list of initGitHubIntegration.
AllRepositories ==
  << "Fifa-World-Cup-Qatar-2022", "Adidas", "Portfolio", "datasets",
     "E-learning-platform" >>
\* The repository lists considered: the prefixes of the configured list.
RepoLists ==
  { SubSeq(AllRepositories, 1, n) :
      n \in 0..(IF MaxRepos < Len(AllRepositories) THEN MaxRepos
                ELSE Len(AllRepositories)) }
Calls == 1..MaxCalls

\* A field that the JSON body does not carry (JavaScript undefined).
Undefined == -1
\* repo.name when the body carries no name.
UndefinedName == "<undefined>"
\* repo.updated_at when the body carries no date, and a date it may carry.
UndefinedDate == "<undefined>"
UpdatedAt == "2025-01-01T00:00:00Z"

\* ------------------------------------------------------- promise values
\* What one element of `promises` holds: still pending, fulfilled with null,
\* fulfilled with a parsed body, or rejected.
Pending ==
  [state |-> "pending", name |-> "", stargazers_count |-> Undefined,
   forks_count |-> Undefined, updated_at |-> UndefinedDate]
Null ==
  [state |-> "null", name |-> "", stargazers_count |-> Undefined,
   forks_count |-> Undefined, updated_at |-> UndefinedDate]
Rejected ==
  [state |-> "rejected", name |-> "", stargazers_count |-> Undefined,
   forks_count |-> Undefined, updated_at |-> UndefinedDate]
Json(n, s, f, u) ==
  [state |-> "json", name |-> n, stargazers_count |-> s, forks_count |-> f,
   updated_at |-> u]

\* The bodies the API may answer with for repository r: one that lacks a
\* count (stargazers_count for the first repository, forks_count for the
\* others), and one that lacks the name and the date.
Bodies(r) ==
  { IF r = AllRepositories[1] THEN Json(r, Undefined, 3, UpdatedAt)
    ELSE Json(r, 4, Undefined, UpdatedAt),
    Json(UndefinedName, 1, Undefined, UndefinedDate) }

\* The body of an error response, e.g. {"message": "Not Found"}.
ErrorBody == Json(UndefinedName, Undefined, Undefined, UndefinedDate)

\* The ways one request can end: transport error (fetch rejects), non-OK
\* status, OK status with an unparsable body, OK status with a JSON body.
Outcomes(r) ==
  { [kind |-> k, body |-> Null] : k \in {"network", "badjson"} }
    \cup { [kind |-> "http", body |-> ErrorBody] }
    \cup { [kind |-> "ok", body |-> b] : b \in Bodies(r) }

\* Mutant: a body that does not parse is passed on as an empty object.
ThenHandler_UnparsedAsEmpty(outcome) ==
  IF outcome.kind \in {"network", "http"} THEN Rejected
  ELSE IF outcome.kind = "badjson" THEN ErrorBody
  ELSE outcome.body

\* .then((response) => { if (!response.ok) throw ...; return response.json() })
ThenHandler(outcome) ==
  IF outcome.kind = "network" THEN Rejected
  ELSE IF outcome.kind = "http" THEN Rejected
  ELSE IF outcome.kind = "badjson" THEN Rejected
  ELSE outcome.body

\* Mutant: the chain has no .catch, a failure stays a rejection.
CatchHandler_Rethrow(v) == v

\* .catch((error) => { console.warn(...); return null; })
CatchHandler(v) == IF v.state = "rejected" THEN Null ELSE v

\* The settled value of one element of `promises`.
RepoPromise(outcome) == CatchHandler(ThenHandler(outcome))

\* Mutant: first-to-complete instead of all-complete.
PromiseAll_Any(ps) ==
  IF \E k \in 1..Len(ps) : ps[k].state = "rejected" THEN "rejected"
  ELSE IF ps = << >> \/ \E k \in 1..Len(ps) : ps[k].state # "pending"
    THEN "fulfilled"
  ELSE "pending"

\* Mutant: the join waits until every request has succeeded.
PromiseAll_AllSucceeded(ps) ==
  IF \A k \in 1..Len(ps) : ps[k].state = "json" THEN "fulfilled"
  ELSE "pending"

\* Promise.all(promises): rejected as soon as one element is rejected,
\* fulfilled once every element is fulfilled, pending otherwise.
PromiseAll(ps) ==
  IF \E k \in 1..Len(ps) : ps[k].state = "rejected" THEN "rejected"
  ELSE IF \A k \in 1..Len(ps) : ps[k].state # "pending" THEN "fulfilled"
  ELSE "pending"

\* Mutant: the results come in the order the requests completed in.
AwaitedResults_CompletionOrder(ps, order) ==
  [j \in 1..Len(order) |-> ps[order[j]]]

\* const results = await Promise.all(promises): the values of the promises
\* in the order of `promises`, whatever order they settled in.
AwaitedResults(ps, order) == ps

\* Mutant: the filter keeps every result.
NotNull_KeepAll(result) == TRUE

\* results.filter((result) => result !== null)
NotNull(result) == result.state # "null"
ValidResults(results) == SelectSeq(results, NotNull)

\* Mutant: the window is closed with <= instead of <.
IsFresh_Inclusive(t, last) == t - last <= cacheDuration

\* now - App.github.lastFetch < App.github.cacheDuration
IsFresh(t, last) == t - last < cacheDuration

\* ----------------------------------------------------------------- state
VARIABLES
  now,            \* Date.now()
  cache,          \* App.github.cache: a Map, here a function on its keys
  lastFetch,      \* App.github.lastFetch
  repositories,   \* the repository list of the page
  pc,             \* where each invocation of initGitHubIntegration stands
  callNow,        \* fetchGitHubRepos' local `now` of each invocation
  promises,       \* fetchGitHubRepos' local `promises` of each invocation
  returned,       \* what the promise of fetchGitHubRepos settled with
  fetched,        \* the repositories each invocation called fetch() for
  succeeded,      \* the requests of each invocation that succeeded so far
  completed,      \* the requests of each invocation, in completion order
  unparsable,     \* the requests whose OK response had no parsable body
  writes,         \* how often each invocation wrote the cache
  path,           \* "hit" or "miss": the branch each invocation took
  filled,         \* what the call that wrote the cache last returned
  microtasks,     \* the microtask queue: await continuations, in order
  statsContainer, \* whether the page has a .github-stats element
  statText,       \* textContent of the "-stars" / "-forks" elements
  animations,     \* the updateStat callbacks requestAnimationFrame holds
  lastUpdated,    \* the project cards that hold a .last-updated element
  statsDisplay    \* what updateGitHubStats wrote into .github-stats

githubVars ==
  << now, cache, lastFetch, repositories, pc, callNow, promises, returned,
     fetched, succeeded, completed, unparsable, writes, path, filled,
     microtasks, statsContainer, statText, animations, lastUpdated,
     statsDisplay >>

\* The fields of a TypewriterEffect, its element and its timers.
VARIABLES
  words,            \* this.words
  currentWordIndex, \* this.currentWordIndex
  currentCharIndex, \* this.currentCharIndex
  isDeleting,       \* this.isDeleting
  isRunning,        \* this.isRunning
  textContent,      \* this.element.textContent
  typeTimeouts,     \* the delays of the pending setTimeout(() => this.type())
  startStops        \* how many start() and stop() calls were made

typewriterVars ==
  << words, currentWordIndex, currentCharIndex, isDeleting, isRunning,
     textContent, typeTimeouts, startStops >>

\* The closure of one throttle(func, delay) wrapper, and what func saw.
VARIABLES
  throttleNow,      \* Date.now()
  lastExecTime,     \* lastExecTime
  timeoutId,        \* the timer timeoutId names, while it is pending
  wrapperCalls,     \* how many times the wrapper was called
  funcRuns          \* the executions of func: when, with which arguments

throttleVars ==
  << throttleNow, lastExecTime, timeoutId, wrapperCalls, funcRuns >>

\* The closure of one debounce(func, wait, immediate) wrapper, and what
\* func saw.
VARIABLES
  debounceNow,      \* the time
  immediate,        \* the wrapper's third argument
  timeout,          \* timeout: the id of a timer, or 0 for null / undefined
  debounceTimers,   \* the pending timers set by the wrapper
  debounceCalls,    \* how many times the wrapper was called
  lastCall,         \* the most recent wrapper call: when, with which arguments
  served,           \* whether func ran since the most recent wrapper call
  debounceRuns      \* the executions of func: when, with which arguments

debounceVars ==
  << debounceNow, immediate, timeout, debounceTimers, debounceCalls,
     lastCall, served, debounceRuns >>

\* The contact form, its submit button, and what handleFormSubmission has
\* under way.
VARIABLES
  formNow,          \* the time
  fieldValue,       \* field.value of each required field
  fieldError,       \* textContent of each field's .form-error element
  fieldClass,       \* "error" and "success" in each field's classList
  fieldLabel,       \* the text of each field's label, if the form has one
  minlength,        \* the minlength attribute of the textarea
  formDataConverts, \* does FormData replace a surrogate without its pair?
  submitBtn,        \* the submit button: class, disabled, text, displays
  formMessage,      \* the .form-message element of the form, if any
  messagesMade,     \* how many .form-message elements were created
  formTimers,       \* the pending timers set by the form's code
  formMicrotasks,   \* the continuations queued, in order
  submits,          \* how many submit events were handled
  submitCalls,      \* how many times submitFormData was called
  mailtoOpened      \* how many times window.location.href was set

formVars ==
  << formNow, fieldValue, fieldError, fieldClass, fieldLabel, minlength,
     formDataConverts,
     submitBtn, formMessage, messagesMade, formTimers,
     formMicrotasks, submits, submitCalls, mailtoOpened >>

\* initializeApp, the loading screen and the navigation links.
VARIABLES
  initNow,          \* the time
  initPc,           \* where initializeApp is: "loading" before it is called,
                    \* "running", "awaitLoader", "ready" or "failed"
  nextStep,         \* the number of the step initializeApp runs next
  missingApis,      \* the APIs this browser does not have
  initError,        \* the step whose error the catch block received
  loadingScreen,    \* #loading-screen: exists, has class "hidden", in the DOM
  navLinks,         \* the click listeners of each .nav__link, in order
  isLoading,        \* App.state.isLoading
  githubOutcome,    \* how the GitHub stats fetch will end
  githubPromise,    \* the promise initGitHubIntegration returned
  statsHidden,      \* hideGitHubStats has run
  fontsInDocument,  \* "fonts" in document
  loader,           \* initLoader: startTime, and which of the three promises
                    \* of its Promise.all are resolved
  initTimers        \* the pending timers of the loader

initVars ==
  << initNow, initPc, nextStep, missingApis, initError, loadingScreen,
     navLinks, isLoading, githubOutcome, githubPromise, statsHidden,
     fontsInDocument, loader, initTimers >>

vars ==
  << githubVars, typewriterVars, throttleVars, debounceVars, formVars,
     initVars >>

\* The variables of the parts other than the one named.
nonGitHubVars ==
  << typewriterVars, throttleVars, debounceVars, formVars, initVars >>
nonTypewriterVars ==
  << githubVars, throttleVars, debounceVars, formVars, initVars >>
nonThrottleVars ==
  << githubVars, typewriterVars, debounceVars, formVars, initVars >>
nonDebounceVars ==
  << githubVars, typewriterVars, throttleVars, formVars, initVars >>
nonFormVars ==
  << githubVars, typewriterVars, throttleVars, debounceVars, initVars >>
nonInitVars ==
  << githubVars, typewriterVars, throttleVars, debounceVars, formVars >>

\* initLoader has not been called.
NoLoader ==
  [startTime |-> 0, minLoadTime |-> FALSE, fonts |-> FALSE, images |-> FALSE]

\* Before DOMContentLoaded, on a page without loading screen and links.
NoInitialization ==
  /\ initNow = 0
  /\ initPc = "loading"
  /\ nextStep = 1
  /\ missingApis = {}
  /\ initError = "none"
  /\ loadingScreen = [exists |-> FALSE, hidden |-> FALSE, inDom |-> FALSE]
  /\ navLinks = << >>
  /\ isLoading = TRUE
  /\ githubOutcome = "rendered"
  /\ githubPromise = "none"
  /\ statsHidden = FALSE
  /\ fontsInDocument = TRUE
  /\ loader = NoLoader
  /\ initTimers = {}

\* An attribute that the element does not have, and one it has.
NoAttribute == [present |-> FALSE, value |-> 0]
Attribute(n) == [present |-> TRUE, value |-> n]
\* The submit button as the page comes.
DefaultButton ==
  [class |-> "", disabled |-> FALSE, text |-> "Send Message",
   textDisplay |-> "", loadingDisplay |-> ""]
\* No .form-message element.
NoMessage == [id |-> 0, type |-> "", text |-> ""]

\* A page without #contact-form: initContactForm returns at once.
NoForm ==
  /\ formNow = 0
  /\ fieldValue = << >>
  /\ fieldError = << >>
  /\ fieldClass = << >>
  /\ fieldLabel = << >>
  /\ minlength = NoAttribute
  /\ formDataConverts = TRUE
  /\ submitBtn = DefaultButton
  /\ formMessage = NoMessage
  /\ messagesMade = 0
  /\ formTimers = << >>
  /\ formMicrotasks = << >>
  /\ submits = 0
  /\ submitCalls = 0
  /\ mailtoOpened = 0

\* No timer.
NoTimer == [pending |-> FALSE, due |-> 0, args |-> 0]
\* No wrapper call yet.
NoCall == [time |-> 0, args |-> 0]

\* A page on which the throttled handler is not installed.
NoThrottle ==
  /\ throttleNow = 0
  /\ lastExecTime = 0
  /\ timeoutId = NoTimer
  /\ wrapperCalls = 0
  /\ funcRuns = << >>

\* A page on which the debounced handler is not installed.
NoDebounce ==
  /\ debounceNow = 0
  /\ immediate = FALSE
  /\ timeout = 0
  /\ debounceTimers = << >>
  /\ debounceCalls = 0
  /\ lastCall = NoCall
  /\ served = FALSE
  /\ debounceRuns = << >>

\* A page without a .typewriter element: initTypewriter returns at once.
NoTypewriter ==
  /\ words = << >>
  /\ currentWordIndex = 0
  /\ currentCharIndex = 0
  /\ isDeleting = FALSE
  /\ isRunning = FALSE
  /\ textContent = << >>
  /\ typeTimeouts = << >>
  /\ startStops = 0

\* ------------------------------------------------------------------- DOM
\* textContent of a stat element: as the page came, a number, or "-".
InitialText == [kind |-> "initial", num |-> 0]
Number(n) == [kind |-> "number", num |-> n]
Dash == [kind |-> "dash", num |-> 0]

\* getRepoSlug on the configured names: lower case, every run of characters
\* outside a-z0-9 replaced by "-", a leading or trailing "-" removed.
getRepoSlug(repoName) ==
  CASE repoName = "Fifa-World-Cup-Qatar-2022" -> "fifa-world-cup-qatar-2022"
    [] repoName = "Adidas" -> "adidas"
    [] repoName = "Portfolio" -> "portfolio"
    [] repoName = "datasets" -> "datasets"
    [] repoName = "E-learning-platform" -> "e-learning-platform"

\* The elements with ids "<slug>-stars" and "<slug>-forks".
StarsElement(slug) == << slug, "stars" >>
ForksElement(slug) == << slug, "forks" >>

\* $$(".project-card"): one card per configured repository, in list order,
\* each holding the two stat elements of its repository.
ProjectCards ==
  [k \in 1..Len(repositories) |->
     { StarsElement(getRepoSlug(repositories[k])),
       ForksElement(getRepoSlug(repositories[k])) }]

\* $$('[id$="-stars"], [id$="-forks"]')
StatElements == UNION { ProjectCards[k] : k \in 1..Len(ProjectCards) }

\* value || 0
OrZero(value) == IF value = Undefined \/ value = 0 THEN 0 ELSE value

\* const duration = 1000 in animateStatNumber, and the time from one
\* animation frame followed to the next.
AnimationDuration == 1000
FrameStep == AnimationDuration \div 2
\* The frames one animation lasts.
AnimationFrames == AnimationDuration \div FrameStep

\* x to the power three.
Cube(x) == x * x * x

\* updateStat(currentTime) at `elapsed` after start: progress is
\* min(elapsed / duration, 1), easeOut is 1 - (1 - progress)^3, and the
\* text is Math.floor(target * easeOut).
CurrentStat(target, elapsed) ==
  LET frames == IF elapsed < AnimationDuration THEN elapsed \div FrameStep
                ELSE AnimationFrames
  IN  (target * (Cube(AnimationFrames) - Cube(AnimationFrames - frames)))
        \div Cube(AnimationFrames)

\* A callback updateStat that requestAnimationFrame holds: its element, its
\* target, and the time since its start (performance.now() - start), which
\* is currentTime - start when a frame calls it.
Animation(element, target, elapsed) ==
  [element |-> element, target |-> target, elapsed |-> elapsed]

\* animateStatNumber(element, target): raf(updateStat). Nothing is written
\* before the next animation frame.
animateStatNumber(callbacks, element, target) ==
  Append(callbacks, Animation(element, target, 0))

\* The cards that hold a .project-content element: the first one.
CardsWithContent == {1}

\* addLastUpdatedInfo(card, updatedAt): the cards that hold a .last-updated
\* element afterwards. Nothing is added without a date, to a card that
\* has the element already, or to a card without .project-content.
addLastUpdatedInfo(infos, index, updatedAt) ==
  IF updatedAt = UndefinedDate THEN infos
  ELSE IF index \in infos THEN infos
  ELSE IF index \in CardsWithContent THEN infos \cup {index}
  ELSE infos

\* updateProjectStats(repoData), from entry `index` on, on the callbacks
\* queued and the .last-updated elements of `dom`. The result tells whether
\* getRepoSlug threw (repo.name undefined) and what was done until then.
RECURSIVE updateProjectStatsFrom(_, _, _)
updateProjectStatsFrom(repoData, index, dom) ==
  IF index > Len(repoData)
    THEN [threw |-> FALSE, callbacks |-> dom.callbacks, infos |-> dom.infos]
  ELSE IF index > Len(ProjectCards)
    THEN updateProjectStatsFrom(repoData, index + 1, dom)
  ELSE
    LET repo == repoData[index]
        card == ProjectCards[index]
    IN  IF repo.name = UndefinedName
          THEN [threw |-> TRUE, callbacks |-> dom.callbacks,
                infos |-> dom.infos]
        ELSE
          LET starsElement == StarsElement(getRepoSlug(repo.name))
              forksElement == ForksElement(getRepoSlug(repo.name))
              c1 == IF starsElement \in card
                    THEN animateStatNumber(dom.callbacks, starsElement,
                                           OrZero(repo.stargazers_count))
                    ELSE dom.callbacks
              c2 == IF forksElement \in card
                    THEN animateStatNumber(c1, forksElement,
                                           OrZero(repo.forks_count))
                    ELSE c1
              infos == addLastUpdatedInfo(dom.infos, index, repo.updated_at)
          IN  updateProjectStatsFrom(repoData, index + 1,
                                     [callbacks |-> c2, infos |-> infos])

updateProjectStats(repoData, callbacks, infos) ==
  updateProjectStatsFrom(repoData, 1,
                         [callbacks |-> callbacks, infos |-> infos])

\* One animation frame: the callbacks held are called in the order they
\* were handed over. The texts afterwards.
RECURSIVE RunCallbacks(_, _)
RunCallbacks(texts, callbacks) ==
  IF callbacks = << >> THEN texts
  ELSE LET a == Head(callbacks)
       IN  RunCallbacks([texts EXCEPT
                           ![a.element] =
                             Number(CurrentStat(a.target, a.elapsed))],
                        Tail(callbacks))

\* if (progress < 1) raf(updateStat)
StillRunning(a) == a.elapsed < AnimationDuration
\* The callbacks held, once `ms` more have passed since their start:
\* `elapsed` stands for performance.now() - start, and currentTime - start
\* of a callback's next call is what it is when the frame runs.
Elapse(callbacks, ms) ==
  [j \in 1..Len(callbacks) |->
     Animation(callbacks[j].element, callbacks[j].target,
               callbacks[j].elapsed + ms)]
\* The callbacks held after the frame: those whose progress was below 1
\* handed themselves over again, nothing else.
NextCallbacks(callbacks) == SelectSeq(callbacks, StillRunning)

\* repoData.reduce((sum, repo) => sum + (repo.stargazers_count || 0), 0)
RECURSIVE TotalStars(_)
TotalStars(repoData) ==
  IF repoData = << >> THEN 0
  ELSE TotalStars(SubSeq(repoData, 1, Len(repoData) - 1))
         + OrZero(repoData[Len(repoData)].stargazers_count)

\* repoData.reduce((sum, repo) => sum + (repo.forks_count || 0), 0)
RECURSIVE TotalForks(_)
TotalForks(repoData) ==
  IF repoData = << >> THEN 0
  ELSE TotalForks(SubSeq(repoData, 1, Len(repoData) - 1))
         + OrZero(repoData[Len(repoData)].forks_count)

\* What .github-stats shows: nothing written yet, or the three numbers.
NoStats == [rendered |-> FALSE, stars |-> 0, forks |-> 0, repos |-> 0]

\* updateGitHubStats(repoData)
updateGitHubStats(repoData, display) ==
  IF statsContainer
  THEN [rendered |-> TRUE, stars |-> TotalStars(repoData),
        forks |-> TotalForks(repoData), repos |-> Len(repoData)]
  ELSE display

\* hideGitHubStats()
hideGitHubStats(texts) == [e \in DOMAIN texts |-> Dash]

\* --------------------------------------------------------- fetchGitHubRepos
\* What the promise of one fetchGitHubRepos call has settled with.
Unsettled == [state |-> "pending", value |-> << >>]
Fulfilled(value) == [state |-> "fulfilled", value |-> value]
Thrown == [state |-> "rejected", value |-> << >>]

\* Mutant: an empty cached array counts as no cached value.
HasCached_NonEmpty == CacheKey \in DOMAIN cache /\ cache[CacheKey] # << >>

\* const cached = App.github.cache.get("repositories"); if (cached) ...
\* An array, even an empty one, is truthy: only a missing key is not.
HasCached == CacheKey \in DOMAIN cache

\* Mutant: the cached value is returned whatever its age.
CacheHit_IgnoreAge(t) == CacheKey \in DOMAIN cache

\* The condition under which fetchGitHubRepos returns the cached value.
CacheHit(t) == IsFresh(t, lastFetch) /\ HasCached

\* repositories.map((repo) => fetch(`.../repos/${username}/${repo}`) ...):
\* the repositories fetch() is called for, in call order.
FetchCalls(repos) == repos

\* App.github.cache.set("repositories", validResults)
CacheSet(c, key, value) ==
  [k \in DOMAIN c \cup {key} |-> IF k = key THEN value ELSE c[k]]

\* The timestamp fetchGitHubRepos stores: its local `now`, read on entry.
StoredTimestamp(i) == callNow[i]

Init ==
  /\ now = 0
  /\ cache = << >>
  /\ lastFetch = 0
  /\ repositories \in RepoLists
  /\ pc = [i \in Calls |-> "idle"]
  /\ callNow = [i \in Calls |-> 0]
  /\ promises = [i \in Calls |-> << >>]
  /\ returned = [i \in Calls |-> Unsettled]
  /\ fetched = [i \in Calls |-> << >>]
  /\ succeeded = [i \in Calls |-> {}]
  /\ completed = [i \in Calls |-> << >>]
  /\ unparsable = [i \in Calls |-> {}]
  /\ writes = [i \in Calls |-> 0]
  /\ path = [i \in Calls |-> "none"]
  /\ filled = Unsettled
  /\ microtasks = << >>
  /\ statsContainer \in BOOLEAN
  /\ statText = [e \in StatElements |-> InitialText]
  /\ animations = << >>
  /\ lastUpdated = {}
  /\ statsDisplay = NoStats
  /\ NoTypewriter /\ NoThrottle /\ NoDebounce /\ NoForm
  /\ NoInitialization

\* The continuation of `await Promise.all(promises)` of invocation i.
JoinTask(i) == [kind |-> "join", call |-> i]
\* The continuation of `await fetchGitHubRepos(repositories)` of invocation i.
RenderTask(i) == [kind |-> "render", call |-> i]

\* The microtask queue once the promise Promise.all(ps) of invocation i has
\* been looked at: its continuation is queued as soon as it is settled.
QueueJoin(queue, i, ps) ==
  IF PromiseAll(ps) # "pending" THEN Append(queue, JoinTask(i)) ELSE queue

\* initGitHubIntegration() is called and runs fetchGitHubRepos up to its
\* first suspension: the cached value is returned, or one request per
\* repository is issued and the call waits at `await Promise.all(promises)`.
\* The call is made from an event listener (initializeApp runs on
\* DOMContentLoaded), that is from a task: no microtask is pending.
Start(i) ==
  /\ pc[i] = "idle"
  /\ microtasks = << >>
  /\ \A j \in 1..(i - 1) : pc[j] # "idle"
  /\ IF CacheHit(now)
     THEN /\ returned' = [returned EXCEPT ![i] = Fulfilled(cache[CacheKey])]
          /\ path' = [path EXCEPT ![i] = "hit"]
          /\ pc' = [pc EXCEPT ![i] = "returned"]
          /\ microtasks' = Append(microtasks, RenderTask(i))
          /\ UNCHANGED << callNow, promises, fetched >>
     ELSE LET ps == [k \in 1..Len(repositories) |-> Pending]
          IN  /\ callNow' = [callNow EXCEPT ![i] = now]
              /\ promises' = [promises EXCEPT ![i] = ps]
              /\ fetched' = [fetched EXCEPT ![i] = FetchCalls(repositories)]
              /\ path' = [path EXCEPT ![i] = "miss"]
              /\ pc' = [pc EXCEPT ![i] = "awaitAll"]
              /\ microtasks' = QueueJoin(microtasks, i, ps)
              /\ UNCHANGED returned
  /\ UNCHANGED << now, cache, lastFetch, repositories, succeeded, completed,
                  unparsable, writes, filled, statsContainer, statText,
                  animations, lastUpdated, statsDisplay >>
  /\ UNCHANGED nonGitHubVars

\* A network event: request k of invocation i ends and its .then/.catch
\* chain runs.
Settle(i, k) ==
  /\ microtasks = << >>
  /\ pc[i] = "awaitAll"
  /\ k \in 1..Len(promises[i])
  /\ promises[i][k].state = "pending"
  /\ \E outcome \in Outcomes(repositories[k]) :
       LET ps == [promises[i] EXCEPT ![k] = RepoPromise(outcome)]
       IN  /\ promises' = [promises EXCEPT ![i] = ps]
           /\ succeeded' =
                [succeeded EXCEPT
                   ![i] = IF outcome.kind = "ok" THEN @ \cup {k} ELSE @]
           /\ completed' = [completed EXCEPT ![i] = Append(@, k)]
           /\ unparsable' =
                [unparsable EXCEPT
                   ![i] = IF outcome.kind = "badjson" THEN @ \cup {k} ELSE @]
           /\ microtasks' = QueueJoin(microtasks, i, ps)
  /\ UNCHANGED << now, cache, lastFetch, repositories, pc, callNow, returned,
                  fetched, writes, path, filled, statsContainer, statText,
                  animations, lastUpdated, statsDisplay >>
  /\ UNCHANGED nonGitHubVars

\* The continuation of `await Promise.all(promises)`: filter, store, return
\* (or rethrow when Promise.all rejected).
Join(i) ==
  /\ microtasks # << >>
  /\ Head(microtasks) = JoinTask(i)
  /\ pc[i] = "awaitAll"
  /\ IF PromiseAll(promises[i]) = "rejected"
     THEN /\ returned' = [returned EXCEPT ![i] = Thrown]
          /\ UNCHANGED << cache, lastFetch, writes, filled >>
     ELSE LET results == AwaitedResults(promises[i], completed[i])
              validResults == ValidResults(results)
          IN  /\ cache' = CacheSet(cache, CacheKey, validResults)
              /\ lastFetch' = StoredTimestamp(i)
              /\ writes' = [writes EXCEPT ![i] = @ + 1]
              /\ filled' = Fulfilled(validResults)
              /\ returned' = [returned EXCEPT ![i] = Fulfilled(validResults)]
  /\ pc' = [pc EXCEPT ![i] = "returned"]
  /\ microtasks' = Append(Tail(microtasks), RenderTask(i))
  \* the call is over: its locals are gone
  /\ promises' = [promises EXCEPT ![i] = << >>]
  /\ callNow' = [callNow EXCEPT ![i] = 0]
  /\ succeeded' = [succeeded EXCEPT ![i] = {}]
  /\ UNCHANGED << now, repositories, fetched, completed, unparsable, path,
                  statsContainer, statText, animations, lastUpdated,
                  statsDisplay >>
  /\ UNCHANGED nonGitHubVars

\* The continuation of `await fetchGitHubRepos(repositories)` in
\* initGitHubIntegration: the try block's two updates, or the catch block.
\* The numbers of the cards are written by the animation frames that
\* follow.
Render(i) ==
  /\ microtasks # << >>
  /\ Head(microtasks) = RenderTask(i)
  /\ pc[i] = "returned"
  /\ microtasks' = Tail(microtasks)
  /\ pc' = [pc EXCEPT ![i] = "done"]
  /\ IF returned[i].state = "rejected"
     THEN /\ statText' = hideGitHubStats(statText)
          /\ UNCHANGED << animations, lastUpdated, statsDisplay >>
     ELSE LET repoData == returned[i].value
              projects == updateProjectStats(repoData, animations,
                                             lastUpdated)
          IN  /\ animations' = projects.callbacks
              /\ lastUpdated' = projects.infos
              /\ IF projects.threw
                 THEN /\ statText' = hideGitHubStats(statText)
                      /\ UNCHANGED statsDisplay
                 ELSE /\ statsDisplay' =
                           updateGitHubStats(repoData, statsDisplay)
                      /\ UNCHANGED statText
  \* the awaited value is consumed
  /\ returned' = [returned EXCEPT ![i] = Unsettled]
  /\ completed' = [completed EXCEPT ![i] = << >>]
  /\ unparsable' = [unparsable EXCEPT ![i] = {}]
  /\ UNCHANGED << now, cache, lastFetch, repositories, callNow, promises,
                  fetched, succeeded, writes, path, filled, statsContainer >>
  /\ UNCHANGED nonGitHubVars

\* An animation frame: requestAnimationFrame calls the callbacks it holds,
\* each with the time that has passed since its own start. No time passes
\* in the frame itself.
Frame ==
  /\ microtasks = << >>
  /\ animations # << >>
  /\ statText' = RunCallbacks(statText, animations)
  /\ animations' = NextCallbacks(animations)
  /\ UNCHANGED << now, cache, lastFetch, repositories, pc, callNow, promises,
                  returned, fetched, succeeded, completed, unparsable,
                  writes, path, filled, microtasks, statsContainer,
                  lastUpdated, statsDisplay >>
  /\ UNCHANGED nonGitHubVars

\* An "unhandledrejection" event whose reason has a message that includes
\* "GitHub": the listener calls hideGitHubStats().
GitHubRejectionUnhandled ==
  /\ microtasks = << >>
  /\ statText # hideGitHubStats(statText)
  /\ statText' = hideGitHubStats(statText)
  /\ UNCHANGED << now, cache, lastFetch, repositories, pc, callNow, promises,
                  returned, fetched, succeeded, completed, unparsable,
                  writes, path, filled, microtasks, statsContainer,
                  animations, lastUpdated, statsDisplay >>
  /\ UNCHANGED nonGitHubVars

\* The time from one animation frame to the next passes (less than a clock
\* step: Date.now() is followed in clock steps). Every callback held is
\* that much further from its start, whether it was handed over before
\* the last frame or after it. The interval is followed as long as an
\* animation is under way.
FrameInterval ==
  /\ microtasks = << >>
  /\ \E n \in 1..Len(animations) : StillRunning(animations[n])
  /\ animations' = Elapse(animations, FrameStep)
  /\ UNCHANGED << now, cache, lastFetch, repositories, pc, callNow, promises,
                  returned, fetched, succeeded, completed, unparsable,
                  writes, path, filled, microtasks, statsContainer, statText,
                  lastUpdated, statsDisplay >>
  /\ UNCHANGED nonGitHubVars

\* Time passes. A clock step is minutes long: it passes between two tasks,
\* never while the microtask queue is being drained. The callbacks that
\* requestAnimationFrame holds stay held, and currentTime - start of their
\* next call is that much later.
Tick ==
  /\ microtasks = << >>
  /\ now < MaxTicks * ClockStep
  /\ now' = now + ClockStep
  /\ animations' = Elapse(animations, ClockStep)
  /\ UNCHANGED << cache, lastFetch, repositories, pc, callNow, promises,
                  returned, fetched, succeeded, completed, unparsable,
                  writes, path, filled, microtasks, statsContainer, statText,
                  lastUpdated, statsDisplay >>
  /\ UNCHANGED nonGitHubVars

Next ==
  \/ \E i \in Calls : Start(i)
  \/ \E i \in Calls : \E k \in 1..MaxRepos : Settle(i, k)
  \/ \E i \in Calls : Join(i)
  \/ \E i \in Calls : Render(i)
  \/ Frame
  \/ FrameInterval
  \/ GitHubRejectionUnhandled
  \/ Tick

Spec == Init /\ [][Next]_vars

\* The same program when every request that was issued settles at some time
\* and the event loop runs the continuations it has queued.
FairSpec ==
  /\ Spec
  /\ \A i \in Calls : \A k \in 1..MaxRepos : WF_vars(Settle(i, k))
  /\ \A i \in Calls : WF_vars(Join(i)) /\ WF_vars(Render(i))

\* ================================================================ claims
\* The steps the claims speak about.
StartStep(i) == pc[i] = "idle" /\ pc'[i] # "idle"
JoinStep(i) == pc[i] = "awaitAll" /\ pc'[i] = "returned"
RenderStep(i) == pc[i] = "returned" /\ pc'[i] = "done"

\* C1: a fetchGitHubRepos call made while a cached result set exists and
\* now - lastFetch < cacheDuration issues no network request and returns
\* exactly the result set the cache-filling call returned.
C1_FreshCallServedFromCache ==
  [][\A i \in Calls :
       (StartStep(i) /\ CacheKey \in DOMAIN cache
          /\ now - lastFetch < cacheDuration)
         => /\ fetched'[i] = << >>
            /\ promises'[i] = << >>
            /\ returned'[i].state = "fulfilled"
            /\ returned'[i] = filled]_vars

\* C1 witness: a call served from the cache with a non-empty result set
\* that a previous call fetched and returned.
C1_Witness ==
  \E i \in Calls :
    /\ pc[i] = "returned" /\ path[i] = "hit" /\ fetched[i] = << >>
    /\ returned[i] = filled /\ Len(filled.value) >= 1
    /\ \E j \in Calls : j # i /\ writes[j] = 1

\* C2: a call started when now - lastFetch >= cacheDuration issues exactly
\* one request per repository name of the list, whatever the cache holds.
C2_ExpiredCallFetchesEachRepository ==
  [][\A i \in Calls :
       (StartStep(i) /\ now - lastFetch >= cacheDuration)
         => /\ Len(fetched'[i]) = Len(repositories)
            /\ \A k \in 1..Len(repositories) :
                 fetched'[i][k] = repositories[k]
            /\ Len(promises'[i]) = Len(repositories)]_vars

\* C2 witness: a call started after the window elapsed, with a result set
\* still in the cache, has issued its two requests.
C2_Witness ==
  \E i \in Calls :
    /\ pc[i] = "awaitAll" /\ CacheKey \in DOMAIN cache
    /\ callNow[i] - lastFetch >= cacheDuration
    /\ Len(repositories) >= 2 /\ fetched[i] = repositories

\* C3: the sequence a cache-miss call returns holds exactly one entry per
\* repository whose request succeeded and none (no null placeholder) for a
\* repository whose request failed; a failure does not abort the batch.
C3_OneEntryPerSuccess ==
  [][\A i \in Calls :
       JoinStep(i)
         => LET out == returned'[i]
                rs == promises[i]
            IN  /\ out.state = "fulfilled"
                /\ Len(out.value) = Cardinality(succeeded[i])
                /\ \A j \in 1..Len(out.value) : out.value[j].state = "json"
                /\ \A k \in succeeded[i] :
                     Cardinality({j \in 1..Len(out.value) :
                                    out.value[j] = rs[k]}) >= 1]_vars

\* C3 witness: of two requests the first succeeded and the second failed,
\* and the call returned the first repository's entry alone.
C3_Witness ==
  \E i \in Calls :
    /\ pc[i] = "returned" /\ path[i] = "miss" /\ Len(repositories) = 2
    /\ returned[i].state = "fulfilled" /\ Len(returned[i].value) = 1
    /\ returned[i].value[1].name = repositories[1]

\* C4: fetchGitHubRepos never rejects, and when every request of a
\* cache-miss call failed it resolves to the empty sequence.
C4_NeverRejects ==
  /\ [](\A i \in Calls : returned[i].state # "rejected")
  /\ [][\A i \in Calls :
          (JoinStep(i) /\ succeeded[i] = {})
            => returned'[i] = Fulfilled(<< >>)]_vars

\* C4 witness: both requests of a cache-miss call failed and the call
\* resolved to the empty sequence.
C4_Witness ==
  \E i \in Calls :
    /\ pc[i] = "returned" /\ path[i] = "miss" /\ Len(repositories) >= 2
    /\ returned[i] = Fulfilled(<< >>)

\* C5 (as claimed): whenever a cache-miss call completes, the cache is
\* fresh at that moment, so a call started right then is served from it.
C5_FreshOnCompletion ==
  [][\A i \in Calls :
       JoinStep(i)
         => /\ CacheKey \in DOMAIN cache'
            /\ now' - lastFetch' < cacheDuration]_vars

\* C6 (as claimed): lastFetch never decreases, and while a stored result
\* set is within its window no step replaces it or moves lastFetch.
C6_StaleOnlyByTime ==
  [][/\ lastFetch' >= lastFetch
     /\ (CacheKey \in DOMAIN cache /\ now - lastFetch < cacheDuration)
          => (cache' = cache /\ lastFetch' = lastFetch)]_vars

\* C7: a cache-miss call writes the cache exactly once, only when every one
\* of its requests has settled, and sets the result set and lastFetch in the
\* same step; a cache-hit call writes nothing.
C7_SingleWriteAfterJoin ==
  [][/\ (cache' # cache \/ lastFetch' # lastFetch \/ writes' # writes)
          => \E i \in Calls :
               /\ JoinStep(i)
               /\ Len(promises[i]) = Len(repositories)
               /\ \A k \in 1..Len(promises[i]) :
                    promises[i][k].state \in {"null", "json"}
               /\ writes[i] = 0 /\ writes'[i] = 1
               /\ \A j \in Calls \ {i} : writes'[j] = writes[j]
               /\ DOMAIN cache' = {CacheKey}
               /\ cache'[CacheKey] = returned'[i].value
               /\ lastFetch' = callNow[i]
     /\ \A i \in Calls :
          /\ (JoinStep(i) /\ returned'[i].state = "fulfilled")
               => writes'[i] = writes[i] + 1
          /\ (StartStep(i) /\ returned'[i].state = "fulfilled")
               => (writes' = writes /\ cache' = cache
                     /\ lastFetch' = lastFetch)]_vars

\* C7 witness: one call fetched two repositories and wrote the cache once;
\* another call was served from the cache and wrote nothing.
C7_Witness ==
  \E i, j \in Calls :
    /\ path[i] = "miss" /\ pc[i] = "done" /\ writes[i] = 1
    /\ Len(repositories) >= 2
    /\ path[j] = "hit" /\ pc[j] = "done" /\ writes[j] = 0

\* C8: the cache never holds an entry under a key other than
\* "repositories", and a call returns the stored result set without
\* fetching only while now - lastFetch < cacheDuration.
C8_OneEntryValidInWindow ==
  /\ [](DOMAIN cache \subseteq {CacheKey})
  /\ [][\A i \in Calls :
          (StartStep(i) /\ returned'[i].state = "fulfilled")
            => /\ CacheKey \in DOMAIN cache
               /\ now - lastFetch < cacheDuration
               /\ returned'[i].value = cache[CacheKey]]_vars

\* C8 witness: a call served from the cache in the last clock step of the
\* window of an entry stored after time 0.
C8_Witness ==
  \E i \in Calls :
    /\ path[i] = "hit" /\ pc[i] = "returned"
    /\ DOMAIN cache = {CacheKey}
    /\ lastFetch > 0
    /\ now - lastFetch = cacheDuration - ClockStep

\* The sum of v[x] over the finite set S.
RECURSIVE SumOver(_, _)
SumOver(S, v) ==
  IF S = {} THEN 0
  ELSE LET x == CHOOSE y \in S : TRUE IN v[x] + SumOver(S \ {x}, v)

\* A count as displayed: 0 when the entry does not carry it.
Shown(count) == IF count = Undefined THEN 0 ELSE count

\* The three numbers .github-stats has to show for result set rs.
ExpectedStats(rs) ==
  [rendered |-> TRUE,
   stars |-> SumOver(1..Len(rs),
                     [j \in 1..Len(rs) |-> Shown(rs[j].stargazers_count)]),
   forks |-> SumOver(1..Len(rs),
                     [j \in 1..Len(rs) |-> Shown(rs[j].forks_count)]),
   repos |-> Len(rs)]

\* C9 (as claimed): when initGitHubIntegration has gone through a result
\* set on a page with .github-stats, the displayed totals are the sums of
\* stargazers_count and forks_count over the entries of the cached result
\* set and the displayed count is its length; every refresh of the cache
\* is followed by the continuation that recomputes them from the set that
\* was stored.
C9_TotalsMatchCache ==
  [][\A i \in Calls :
       /\ (RenderStep(i) /\ statsContainer /\ returned[i].state = "fulfilled")
            => /\ CacheKey \in DOMAIN cache'
               /\ statsDisplay' = ExpectedStats(cache'[CacheKey])
       /\ (JoinStep(i) /\ cache' # cache)
            => /\ microtasks' # << >>
               /\ microtasks'[Len(microtasks')] = RenderTask(i)
               /\ returned'[i].value = cache'[CacheKey]]_vars

\* C10 (as claimed): when every request failed, initGitHubIntegration
\* writes the placeholder "-" into every "-stars" and "-forks" element.
C10_TotalFailureShowsPlaceholder ==
  [][\A i \in Calls :
       (RenderStep(i) /\ path[i] = "miss" /\ Len(repositories) >= 1
          /\ returned[i] = Fulfilled(<< >>))
         => \A e \in DOMAIN statText' : statText'[e] = Dash]_vars

\* The entries of rs at the positions in S, in the order of rs.
RECURSIVE Pick(_, _)
Pick(rs, S) ==
  IF rs = << >> THEN << >>
  ELSE LET n == Len(rs)
           front == Pick(SubSeq(rs, 1, n - 1), S)
       IN  IF n \in S THEN Append(front, rs[n]) ELSE front

\* C11: a request with a success status whose body does not parse as JSON
\* ends like a failed request: its promise is fulfilled with null, its
\* repository has no entry in the returned sequence, the entries of the
\* other repositories are there, and fetchGitHubRepos does not reject.
C11_UnparsableBodyIsAFailure ==
  [][\A i \in Calls :
       JoinStep(i)
         => LET out == returned'[i]
                rs == promises[i]
                others == (1..Len(rs)) \ unparsable[i]
            IN  /\ out.state = "fulfilled"
                /\ \A k \in unparsable[i] : rs[k] = Null /\ k \notin succeeded[i]
                /\ Len(out.value) <= Cardinality(others)
                /\ out.value = Pick(rs, succeeded[i] \ unparsable[i])
                /\ \A k \in others :
                     rs[k].state = "json"
                       => \E j \in 1..Len(out.value) : out.value[j] = rs[k]]_vars

\* C11 witness: the first repository's body did not parse, the second
\* request succeeded, and the call returned the second entry alone.
C11_Witness ==
  \E i \in Calls :
    /\ pc[i] = "returned" /\ path[i] = "miss" /\ Len(repositories) = 2
    /\ unparsable[i] = {1}
    /\ returned[i].state = "fulfilled" /\ Len(returned[i].value) = 1
    /\ returned[i].value[1].name = repositories[2]

\* The card at position j holds the element e.
InCard(j, e) == j <= Len(ProjectCards) /\ e \in ProjectCards[j]

\* The callbacks handed to requestAnimationFrame in this step.
NewCallbacks ==
  SubSeq(animations', Len(animations) + 1, Len(animations'))

\* C12 (as claimed): an entry without stargazers_count (or forks_count) is
\* shown with 0 in its card (the animation started for its element has the
\* target 0), adds 0 to the total, and is counted as a repository.
C12_MissingCountIsZero ==
  [][\A i \in Calls :
       (RenderStep(i) /\ returned[i].state = "fulfilled")
         => LET rs == returned[i].value
                withStars == {j \in 1..Len(rs) :
                                rs[j].stargazers_count # Undefined}
                withForks == {j \in 1..Len(rs) :
                                rs[j].forks_count # Undefined}
                lacking == {j \in 1..Len(rs) :
                              \/ rs[j].stargazers_count = Undefined
                              \/ rs[j].forks_count = Undefined}
            IN  /\ \A j \in 1..Len(rs) :
                     rs[j].name # UndefinedName
                       => LET slug == getRepoSlug(rs[j].name)
                          IN  /\ (rs[j].stargazers_count = Undefined
                                    /\ InCard(j, StarsElement(slug)))
                                   => \E n \in 1..Len(NewCallbacks) :
                                        NewCallbacks[n] =
                                          Animation(StarsElement(slug), 0, 0)
                              /\ (rs[j].forks_count = Undefined
                                    /\ InCard(j, ForksElement(slug)))
                                   => \E n \in 1..Len(NewCallbacks) :
                                        NewCallbacks[n] =
                                          Animation(ForksElement(slug), 0, 0)
                /\ (statsContainer /\ lacking # {})
                     => /\ statsDisplay'.rendered
                        /\ statsDisplay'.repos = Len(rs)
                        /\ statsDisplay'.stars =
                             SumOver(withStars,
                                     [j \in withStars |->
                                        rs[j].stargazers_count])
                        /\ statsDisplay'.forks =
                             SumOver(withForks,
                                     [j \in withForks |->
                                        rs[j].forks_count])]_vars

\* C13: when every request of a cache-miss call settles, the call returns a
\* result and the cache is written; and the call returns only then: no
\* passing of time ends the wait for a request that has not settled.
C13_ReturnsOnceAllSettled ==
  /\ \A i \in Calls :
       (pc[i] = "awaitAll")
         ~> (pc[i] \in {"returned", "done"} /\ writes[i] = 1
               /\ CacheKey \in DOMAIN cache)
  /\ [][\A i \in Calls :
          /\ (pc[i] = "awaitAll" /\ pc'[i] # "awaitAll")
               => /\ JoinStep(i)
                  /\ \A k \in 1..Len(promises[i]) :
                       promises[i][k].state # "pending"
          /\ (pc[i] = "awaitAll" /\ now' # now)
               => (pc'[i] = "awaitAll" /\ promises'[i] = promises[i])]_vars

\* C13 witness: a call whose first request was still unsettled after the
\* clock reached its last step has returned, with the cache written.
C13_Witness ==
  \E i \in Calls :
    /\ pc[i] = "returned" /\ path[i] = "miss" /\ writes[i] = 1
    /\ Len(repositories) >= 2 /\ Len(completed[i]) = Len(repositories)
    /\ now = MaxTicks * ClockStep /\ lastFetch = 0
    /\ CacheKey \in DOMAIN cache

\* C14: whatever order the requests completed in, the sequence a cache-miss
\* call returns and stores is the list of its requests' results in the
\* order of the repository list, with the failed ones left out.
C14_InputOrderKept ==
  [][\A i \in Calls :
       (JoinStep(i) /\ returned'[i].state = "fulfilled")
         => LET out == returned'[i].value
            IN  /\ fetched[i] = repositories
                /\ out = Pick(promises[i], succeeded[i])
                /\ cache'[CacheKey] = out
                /\ \A a, b \in 1..Len(out) :
                     (a < b /\ out[a].name # UndefinedName
                        /\ out[b].name # UndefinedName)
                       => \E k, l \in 1..Len(repositories) :
                            /\ k < l
                            /\ out[a].name = repositories[k]
                            /\ out[b].name = repositories[l]]_vars

\* C14 witness: the second request completed before the first, both
\* succeeded, and the returned sequence starts with the first repository.
C14_Witness ==
  \E i \in Calls :
    /\ pc[i] = "returned" /\ path[i] = "miss"
    /\ completed[i] = << 2, 1 >>
    /\ Len(returned[i].value) = 2
    /\ returned[i].value[1].name = repositories[1]
    /\ returned[i].value[2].name = repositories[2]

\* ===================================================== TypewriterEffect
\* Number of words handed to the constructor, and their length.
MaxWords == 2
MaxWordLen == 2
\* Number of start() and stop() calls made on one effect.
MaxStartStops == 3
\* The value up to which currentCharIndex is followed.
MaxCharIndex == 4

\* The characters of a word: a blank, and one that is not.
Characters == {" ", "a"}
\* The words (each a sequence of characters) and word lists considered.
RawWords == UNION { [1..n -> Characters] : n \in 0..MaxWordLen }
WordLists == UNION { [1..n -> RawWords] : n \in 1..MaxWords }

\* word.trim(): the word without its leading and trailing blanks.
RECURSIVE TrimStart(_)
TrimStart(w) ==
  IF w # << >> /\ Head(w) = " " THEN TrimStart(Tail(w)) ELSE w
RECURSIVE TrimEnd(_)
TrimEnd(w) ==
  IF w # << >> /\ w[Len(w)] = " "
  THEN TrimEnd(SubSeq(w, 1, Len(w) - 1)) ELSE w
Trim(w) == TrimEnd(TrimStart(w))

\* word.substring(0, end): an end below 0 counts as 0, one beyond the word
\* as the length of the word.
Substring(w, end) ==
  SubSeq(w, 1, IF end < 0 THEN 0 ELSE IF end > Len(w) THEN Len(w) ELSE end)

\* Math.random() * 50, at the two ends of its range.
RandomParts == {0, 49}

\* new TypewriterEffect(element, ws)
TypewriterConstructed(ws) ==
  /\ words = [k \in 1..Len(ws) |-> Trim(ws[k])]
  /\ currentWordIndex = 0
  /\ currentCharIndex = 0
  /\ isDeleting = FALSE
  /\ isRunning = FALSE
  /\ textContent = << >>
  /\ typeTimeouts = << >>
  /\ startStops = 0

\* type(), called while this.isRunning is `running`, with `random` the
\* value of Math.random() * 50 and `pending` the timeouts pending then.
type(running, random, pending) ==
  IF ~running
  THEN /\ typeTimeouts' = pending
       /\ UNCHANGED << currentWordIndex, currentCharIndex, isDeleting,
                       textContent >>
  ELSE
    LET currentWord == words[currentWordIndex + 1]
        charIndex == IF isDeleting THEN currentCharIndex - 1
                     ELSE currentCharIndex + 1
        speed == (IF isDeleting THEN 75 ELSE 150) + random
        atEnd == ~isDeleting /\ charIndex = Len(currentWord)
        atStart == isDeleting /\ charIndex = 0
        typeSpeed == IF atEnd THEN 2000 ELSE IF atStart THEN 500 ELSE speed
    IN  /\ currentCharIndex' = charIndex
        /\ textContent' = Substring(currentWord, charIndex)
        /\ isDeleting' = IF atEnd THEN TRUE ELSE IF atStart THEN FALSE
                         ELSE isDeleting
        /\ currentWordIndex' =
             IF atStart THEN (currentWordIndex + 1) % Len(words)
             ELSE currentWordIndex
        /\ typeTimeouts' = Append(pending, typeSpeed)

\* The sequence q without its element at position j.
RemoveAt(q, j) == SubSeq(q, 1, j - 1) \o SubSeq(q, j + 1, Len(q))

\* start()
TypewriterStart ==
  /\ startStops < MaxStartStops
  /\ startStops' = startStops + 1
  /\ IF isRunning
     THEN UNCHANGED << currentWordIndex, currentCharIndex, isDeleting,
                       isRunning, textContent, typeTimeouts >>
     ELSE /\ isRunning' = TRUE
          /\ \E random \in RandomParts : type(TRUE, random, typeTimeouts)
  /\ UNCHANGED << words, nonTypewriterVars >>

\* stop()
TypewriterStop ==
  /\ startStops < MaxStartStops
  /\ startStops' = startStops + 1
  /\ isRunning' = FALSE
  /\ UNCHANGED << words, currentWordIndex, currentCharIndex, isDeleting,
                  textContent, typeTimeouts, nonTypewriterVars >>

\* One of the pending timeouts fires: () => this.type()
TypeTimeout(j) ==
  /\ j \in 1..Len(typeTimeouts)
  /\ currentCharIndex < MaxCharIndex
  /\ \E random \in RandomParts :
       type(isRunning, random, RemoveAt(typeTimeouts, j))
  /\ UNCHANGED << words, isRunning, startStops, nonTypewriterVars >>

\* The page without the GitHub integration under way.
NoGitHub ==
  /\ now = 0
  /\ cache = << >>
  /\ lastFetch = 0
  /\ repositories = << >>
  /\ pc = [i \in Calls |-> "idle"]
  /\ callNow = [i \in Calls |-> 0]
  /\ promises = [i \in Calls |-> << >>]
  /\ returned = [i \in Calls |-> Unsettled]
  /\ fetched = [i \in Calls |-> << >>]
  /\ succeeded = [i \in Calls |-> {}]
  /\ completed = [i \in Calls |-> << >>]
  /\ unparsable = [i \in Calls |-> {}]
  /\ writes = [i \in Calls |-> 0]
  /\ path = [i \in Calls |-> "none"]
  /\ filled = Unsettled
  /\ microtasks = << >>
  /\ statsContainer = FALSE
  /\ statText = << >>
  /\ animations = << >>
  /\ lastUpdated = {}
  /\ statsDisplay = NoStats

TypewriterInit ==
  /\ \E ws \in WordLists : TypewriterConstructed(ws)
  /\ NoGitHub /\ NoThrottle /\ NoDebounce /\ NoForm /\ NoInitialization

TypewriterNext ==
  \/ TypewriterStart
  \/ TypewriterStop
  \/ \E j \in 1..(MaxStartStops + 1) : TypeTimeout(j)

TypewriterSpec == TypewriterInit /\ [][TypewriterNext]_vars

\* C15 (as claimed): at most one timeout that will call type() is pending,
\* whatever start() and stop() calls and timer firings came before.
C15_OneTypeChain == [](Len(typeTimeouts) <= 1)

\* C16 (as claimed): currentCharIndex stays within the current word and
\* currentWordIndex within the word list.
C16_IndicesInRange ==
  [](/\ 0 <= currentWordIndex /\ currentWordIndex < Len(words)
     /\ 0 <= currentCharIndex
     /\ currentCharIndex <= Len(words[currentWordIndex + 1]))

\* ============================================================== throttle
\* Number of calls of the wrapper, and of steps of the clock.
MaxThrottleCalls == 4
MaxThrottleTicks == 4
\* delay: the scroll-depth handler of initAnalytics is throttled to 1000 ms.
ThrottleDelay == 1000
\* One step of the clock: half the delay.
ThrottleStep == ThrottleDelay \div 2
\* Date.now() when the wrapper is made: far more than delay after 0.
ThrottleEpoch == 10 * ThrottleDelay

\* const throttled = throttle(func, delay)
ThrottleInit ==
  /\ throttleNow = ThrottleEpoch
  /\ lastExecTime = 0
  /\ timeoutId = NoTimer
  /\ wrapperCalls = 0
  /\ funcRuns = << >>
  /\ NoGitHub /\ NoTypewriter /\ NoDebounce /\ NoForm /\ NoInitialization

\* func.apply(this, args) at time t
FuncApply(runs, t, args, from) ==
  Append(runs, [time |-> t, args |-> args, from |-> from])

\* The wrapper is called; its arguments are the number of the call.
ThrottledCall ==
  /\ wrapperCalls < MaxThrottleCalls
  /\ wrapperCalls' = wrapperCalls + 1
  /\ LET currentTime == throttleNow
         args == wrapperCalls + 1
     IN  IF currentTime - lastExecTime > ThrottleDelay
         THEN /\ funcRuns' = FuncApply(funcRuns, currentTime, args, "call")
              /\ lastExecTime' = currentTime
              /\ UNCHANGED timeoutId
         ELSE \* clearTimeout(timeoutId); timeoutId = setTimeout(...)
              /\ timeoutId' =
                   [pending |-> TRUE,
                    due |-> currentTime
                              + (ThrottleDelay - (currentTime - lastExecTime)),
                    args |-> args]
              /\ UNCHANGED << funcRuns, lastExecTime >>
  /\ UNCHANGED << throttleNow, nonThrottleVars >>

\* The pending timer fires, at the time it is due or later.
ThrottleTimeout ==
  /\ timeoutId.pending
  /\ throttleNow >= timeoutId.due
  /\ funcRuns' = FuncApply(funcRuns, throttleNow, timeoutId.args, "timer")
  /\ lastExecTime' = throttleNow
  /\ timeoutId' = NoTimer
  /\ UNCHANGED << throttleNow, wrapperCalls, nonThrottleVars >>

\* Time passes.
ThrottleTick ==
  /\ throttleNow < ThrottleEpoch + MaxThrottleTicks * ThrottleStep
  /\ throttleNow' = throttleNow + ThrottleStep
  /\ UNCHANGED << lastExecTime, timeoutId, wrapperCalls, funcRuns,
                  nonThrottleVars >>

ThrottleNext == ThrottledCall \/ ThrottleTimeout \/ ThrottleTick

ThrottleSpec == ThrottleInit /\ [][ThrottleNext]_vars

\* C17 (as claimed): any two consecutive executions of func are at least
\* delay milliseconds apart.
C17_RunsDelayApart ==
  [](\A j \in 1..(Len(funcRuns) - 1) :
       funcRuns[j + 1].time - funcRuns[j].time >= ThrottleDelay)

\* ============================================================== debounce
\* Number of calls of the wrapper, and of steps of the clock.
MaxDebounceCalls == 3
MaxDebounceTicks == 5
\* wait: the resize handler of initScrollSystem is debounced by 250 ms.
DebounceWait == 250
\* One step of the clock: half the wait, in whole milliseconds.
DebounceStep == DebounceWait \div 2

\* const debounced = debounce(func, wait, immediate)
DebounceInit ==
  /\ debounceNow = 0
  /\ immediate \in BOOLEAN
  /\ timeout = 0
  /\ debounceTimers = << >>
  /\ debounceCalls = 0
  /\ lastCall = NoCall
  /\ served = FALSE
  /\ debounceRuns = << >>
  /\ NoGitHub /\ NoTypewriter /\ NoThrottle /\ NoForm /\ NoInitialization

\* Mutant: the pending timer is not cleared.
clearTimeout_Missing(timers, id) == timers

\* clearTimeout(id): the pending timers without the one named id.
clearTimeout(timers, id) ==
  SelectSeq(timers, LAMBDA timer : timer.id # id)

\* func(...args) at time t
FuncCall(runs, t, args) == Append(runs, [time |-> t, args |-> args])

\* The wrapper is called; its arguments are the number of the call, and so
\* is the id of the timer it sets.
DebouncedCall ==
  /\ debounceCalls < MaxDebounceCalls
  /\ debounceCalls' = debounceCalls + 1
  /\ LET args == debounceCalls + 1
         \* const callNow = immediate && !timeout
         callFirst == immediate /\ timeout = 0
         later == [id |-> debounceCalls + 1,
                   due |-> debounceNow + DebounceWait, args |-> args]
     IN  /\ debounceTimers' = Append(clearTimeout(debounceTimers, timeout),
                                     later)
         /\ timeout' = later.id
         /\ lastCall' = [time |-> debounceNow, args |-> args]
         /\ IF callFirst
            THEN /\ debounceRuns' = FuncCall(debounceRuns, debounceNow, args)
                 /\ served' = TRUE
            ELSE /\ served' = FALSE
                 /\ UNCHANGED debounceRuns
  /\ UNCHANGED << debounceNow, immediate, nonDebounceVars >>

\* A pending timer fires, at the time it is due or later, and no sooner
\* than a timer that is due before it: later()
DebounceTimeout(j) ==
  /\ j \in 1..Len(debounceTimers)
  /\ debounceNow >= debounceTimers[j].due
  /\ \A l \in 1..Len(debounceTimers) :
       debounceTimers[l].due >= debounceTimers[j].due
  /\ debounceTimers' = RemoveAt(debounceTimers, j)
  /\ timeout' = 0
  /\ IF ~immediate
     THEN /\ debounceRuns' =
               FuncCall(debounceRuns, debounceNow, debounceTimers[j].args)
          /\ served' = TRUE
     ELSE UNCHANGED << debounceRuns, served >>
  /\ UNCHANGED << debounceNow, immediate, debounceCalls, lastCall,
                  nonDebounceVars >>

\* Time passes.
DebounceTick ==
  /\ debounceNow < MaxDebounceTicks * DebounceStep
  /\ debounceNow' = debounceNow + DebounceStep
  /\ UNCHANGED << immediate, timeout, debounceTimers, debounceCalls,
                  lastCall, served, debounceRuns, nonDebounceVars >>

DebounceNext ==
  \/ DebouncedCall
  \/ \E j \in 1..MaxDebounceCalls : DebounceTimeout(j)
  \/ DebounceTick

DebounceSpec == DebounceInit /\ [][DebounceNext]_vars

\* C18: with immediate unset, func runs only when at least wait
\* milliseconds have passed since the most recent wrapper call, with the
\* arguments of that call, and once: it did not run since that call, and
\* no timer is left that would run it again. Until it runs, the timer of
\* the most recent call, and no other, is pending.
C18_RunsOncePerBurst ==
  /\ [][(~immediate /\ debounceRuns' # debounceRuns)
          => LET run == debounceRuns'[Len(debounceRuns')]
             IN  /\ Len(debounceRuns') = Len(debounceRuns) + 1
                 /\ debounceCalls' = debounceCalls
                 /\ run.time - lastCall.time >= DebounceWait
                 /\ run.args = lastCall.args
                 /\ ~served /\ served'
                 /\ debounceTimers' = << >>]_vars
  /\ []((~immediate /\ debounceCalls > 0 /\ ~served)
          => /\ Len(debounceTimers) = 1
             /\ debounceTimers[1].args = lastCall.args
             /\ debounceTimers[1].due = lastCall.time + DebounceWait)
  /\ []((~immediate /\ served) => debounceTimers = << >>)

\* C18 witness: two calls half a wait apart made one run, with the
\* arguments of the second; a third call afterwards made another.
C18_Witness ==
  /\ ~immediate
  /\ Len(debounceRuns) = 2
  /\ debounceRuns[1].args = 2 /\ debounceRuns[2].args = 3
  /\ debounceRuns[1].time >= DebounceStep + DebounceWait

\* ========================================================== contact form
\* Number of submit events handled, and of steps of the clock.
MaxSubmits == 2
MaxFormTicks == 1
\* The delay submitFormData waits for, the delay after which the button is
\* set back, and the delay after which a .form-message is removed.
SubmitDelay == 1500
ResetDelay == 3000
MessageDelay == 5000
\* The length below which the message is too short, without a minlength
\* attribute.
DefaultMinLength == 20
\* One step of the clock.
FormStep == SubmitDelay

\* A code unit that encodeURIComponent throws URIError for: a surrogate
\* without its pair; and U+FFFD, which FormData puts in its place.
Surrogate == "<D800>"
Replacement == "<FFFD>"
\* The word made of n times the character c.
Repeat(c, n) == [j \in 1..n |-> c]

\* The required fields of the form: input[required], textarea[required].
FieldNames == {"name", "email", "message"}
\* No label[for=id] in the form, and the text of the label there may be.
NoLabel == "<no label>"
LabelText(f) ==
  CASE f = "name" -> "Your Name"
    [] f = "email" -> "Email Address"
    [] f = "message" -> "Your Message"
\* The forms there may be: with a label for every field or for none, the
\* textarea with or without a minlength attribute.
FieldLabels ==
  { [f \in FieldNames |-> NoLabel], [f \in FieldNames |-> LabelText(f)] }
MinLengths == { NoAttribute, Attribute(DefaultMinLength - 1) }
\* The pages there may be: the form written without labels and without the
\* minlength attribute, or with both.
FormPages ==
  { page \in [labels : FieldLabels, minlength : MinLengths] :
      (page.labels["name"] = NoLabel) = (page.minlength = NoAttribute) }

\* The field of the form that has the given name.
FieldOf(f, labels, minlengthAttribute) ==
  CASE f = "name" ->
         [name |-> f, type |-> "text", tagName |-> "INPUT",
          label |-> labels[f], minlength |-> NoAttribute]
    [] f = "email" ->
         [name |-> f, type |-> "email", tagName |-> "INPUT",
          label |-> labels[f], minlength |-> NoAttribute]
    [] f = "message" ->
         [name |-> f, type |-> "textarea", tagName |-> "TEXTAREA",
          label |-> labels[f], minlength |-> minlengthAttribute]
Field(f) == FieldOf(f, fieldLabel, minlength)

\* What the user may type into each field.
FieldValues(f) ==
  CASE f = "name" ->
         { << " ", "a" >>, << "a", "b" >>, << "a", Surrogate >> }
    [] f = "email" -> { << "a", "@", "a" >>, << "a", "@", "a", ".", "a" >> }
    [] f = "message" ->
         { Repeat("a", DefaultMinLength - 1), Repeat("a", DefaultMinLength) }
\* The form as the page comes and after form.reset().
EmptyForm == [f \in FieldNames |-> << >>]
NoFieldErrors == [f \in FieldNames |-> ""]

\* isValidEmail(email): /^[^\s@]+@[^\s@]+\.[^\s@]+$/
isValidEmail(email) ==
  \E i \in 2..Len(email) :
    /\ email[i] = "@"
    /\ \A k \in 1..Len(email) : k # i => email[k] \notin {" ", "@"}
    /\ \E j \in (i + 2)..(Len(email) - 1) : email[j] = "."

\* getFieldLabel(field): label ? label.textContent : field.name
getFieldLabel(field) ==
  IF field.label # NoLabel THEN field.label ELSE field.name

\* field.getAttribute("minlength") || 20
MinLengthOf(field) ==
  IF field.minlength.present THEN field.minlength.value
  ELSE DefaultMinLength

\* validateField(field), for a required field holding rawValue: the error
\* message, "" when the field is valid.
validateField(field, rawValue) ==
  LET value == Trim(rawValue)
  IN  IF value = << >> THEN getFieldLabel(field) \o " is required"
      ELSE IF field.type = "email"
        THEN IF ~isValidEmail(value)
             THEN "Please enter a valid email address" ELSE ""
      ELSE IF field.type = "text"
        THEN IF field.name = "name" /\ Len(value) < 2
             THEN "Name must be at least 2 characters" ELSE ""
      ELSE IF field.tagName = "TEXTAREA" /\ Len(value) < MinLengthOf(field)
        THEN "Message must be at least " \o ToString(MinLengthOf(field))
               \o " characters"
      ELSE ""

\* The class validateField leaves on the field: clearFieldError, then
\* showFieldError or showFieldSuccess.
ValidatedClass(errorMessage) ==
  IF errorMessage # "" THEN "error" ELSE "success"

\* showFieldError on a field that was not cleared: classList.add("error").
showFieldError(class) ==
  IF class = "success" THEN "success error" ELSE "error"

\* input.validationMessage of a required field without value.
ValidationMessage == "Please fill out this field."

\* Mutant: isValid is what the last field's validation returned.
IsValid_LastFieldOnly(values) ==
  validateField(Field("message"), values["message"]) = ""

\* let isValid = true; inputs.forEach((input) => { if (!validateField(input))
\* isValid = false; })
IsValid(values) ==
  \A f \in FieldNames : validateField(Field(f), values[f]) = ""

\* A value as a scalar value string: every surrogate without its pair
\* replaced by U+FFFD.
ToScalarValue(value) ==
  [k \in DOMAIN value |->
     IF value[k] = Surrogate THEN Replacement ELSE value[k]]
\* Object.fromEntries(new FormData(form).entries()): the entries are what
\* the browser's FormData makes of the values, scalar value strings where
\* it converts them (as the HTML standard has it), the code units typed
\* where it does not.
FormDataOf(values) ==
  [f \in FieldNames |->
     IF formDataConverts THEN ToScalarValue(values[f]) ELSE values[f]]

\* encodeURIComponent in submitFormData throws for the data.
EncodeThrows(data) ==
  \E f \in FieldNames : \E k \in 1..Len(data[f]) : data[f][k] = Surrogate

\* Mutant: the default case leaves button.disabled as it is.
setSubmitButtonState_DefaultKeepsDisabled(button, state) ==
  CASE state = "loading" ->
         [button EXCEPT !.class = "loading", !.disabled = TRUE,
                        !.textDisplay = "none",
                        !.loadingDisplay = "inline-flex"]
    [] state = "success" ->
         [class |-> "success", disabled |-> TRUE, text |-> "Message Sent!",
          textDisplay |-> "inline", loadingDisplay |-> "none"]
    [] state = "error" ->
         [class |-> "error", disabled |-> FALSE, text |-> "Try Again",
          textDisplay |-> "inline", loadingDisplay |-> "none"]
    [] OTHER ->
         [class |-> "", disabled |-> button.disabled, text |-> "Send Message",
          textDisplay |-> "inline", loadingDisplay |-> "none"]

\* setSubmitButtonState(button, state)
setSubmitButtonState(button, state) ==
  CASE state = "loading" ->
         [button EXCEPT !.class = "loading", !.disabled = TRUE,
                        !.textDisplay = "none",
                        !.loadingDisplay = "inline-flex"]
    [] state = "success" ->
         [class |-> "success", disabled |-> TRUE, text |-> "Message Sent!",
          textDisplay |-> "inline", loadingDisplay |-> "none"]
    [] state = "error" ->
         [class |-> "error", disabled |-> FALSE, text |-> "Try Again",
          textDisplay |-> "inline", loadingDisplay |-> "none"]
    [] OTHER ->
         [class |-> "", disabled |-> FALSE, text |-> "Send Message",
          textDisplay |-> "inline", loadingDisplay |-> "none"]

\* A pending timer of the form's code.
FormTimer(kind, due, id) == [kind |-> kind, due |-> due, id |-> id]

\* showFormMessage(message, type): the element that replaces the one
\* there, and the timer that will remove it.
showFormMessage(message, messageType) ==
  /\ messagesMade' = messagesMade + 1
  /\ formMessage' =
       [id |-> messagesMade + 1, type |-> messageType, text |-> message]

\* The timer set by showFormMessage.
MessageTimer == FormTimer("removeMessage", formNow + MessageDelay,
                          messagesMade + 1)

\* new FormData(form); const form = ...: the page with the contact form.
FormInit ==
  /\ formNow = 0
  /\ fieldValue = EmptyForm
  /\ fieldError = NoFieldErrors
  /\ fieldClass = NoFieldErrors
  /\ \E page \in FormPages :
       fieldLabel = page.labels /\ minlength = page.minlength
  /\ formDataConverts \in BOOLEAN
  /\ submitBtn = DefaultButton
  /\ formMessage = NoMessage
  /\ messagesMade = 0
  /\ formTimers = << >>
  /\ formMicrotasks = << >>
  /\ submits = 0
  /\ submitCalls = 0
  /\ mailtoOpened = 0
  /\ NoGitHub /\ NoTypewriter /\ NoThrottle /\ NoDebounce
  /\ NoInitialization

\* An event on field f handled by a listener of setupFormValidation, which
\* leaves the field with the given value, error text and class.
FieldEvent(f, value, errorText, class) ==
  /\ formMicrotasks = << >>
  /\ fieldValue' = [fieldValue EXCEPT ![f] = value]
  /\ fieldError' = [fieldError EXCEPT ![f] = errorText]
  /\ fieldClass' = [fieldClass EXCEPT ![f] = class]
  /\ UNCHANGED << formNow, fieldLabel, minlength, formDataConverts, submitBtn, formMessage,
                  messagesMade, formTimers, formMicrotasks, submits,
                  submitCalls, mailtoOpened, nonFormVars >>

\* The user changes the value of field f: the "input" listener calls
\* validateField(input).
Input(f, value) ==
  /\ value # fieldValue[f]
  /\ FieldEvent(f, value, validateField(Field(f), value),
                ValidatedClass(validateField(Field(f), value)))

\* Field f loses the focus: the "blur" listener calls validateField(input).
Blur(f) ==
  FieldEvent(f, fieldValue[f], validateField(Field(f), fieldValue[f]),
             ValidatedClass(validateField(Field(f), fieldValue[f])))

\* The browser finds the required field f without value: the "invalid"
\* listener calls showFieldError(input, input.validationMessage).
Invalid(f) ==
  /\ fieldValue[f] = << >>
  /\ FieldEvent(f, fieldValue[f], ValidationMessage,
                showFieldError(fieldClass[f]))

\* A submit event of the form: handleFormSubmission up to its return or its
\* await. The browser delivers the event only while the submit button is
\* enabled.
Submit ==
  /\ formMicrotasks = << >>
  /\ submits < MaxSubmits
  /\ ~submitBtn.disabled
  /\ submits' = submits + 1
  /\ fieldError' =
       [f \in FieldNames |-> validateField(Field(f), fieldValue[f])]
  /\ fieldClass' =
       [f \in FieldNames |->
          ValidatedClass(validateField(Field(f), fieldValue[f]))]
  /\ IF ~IsValid(fieldValue)
     THEN /\ showFormMessage("Please correct the errors above", "error")
          /\ formTimers' = Append(formTimers, MessageTimer)
          /\ UNCHANGED << submitBtn, formMicrotasks, submitCalls >>
     ELSE /\ submitBtn' = setSubmitButtonState(submitBtn, "loading")
          /\ submitCalls' = submitCalls + 1
          /\ IF EncodeThrows(FormDataOf(fieldValue))
             THEN /\ formMicrotasks' = Append(formMicrotasks, "catch")
                  /\ UNCHANGED formTimers
             ELSE /\ formTimers' =
                       Append(formTimers,
                              FormTimer("submitDelay", formNow + SubmitDelay,
                                        0))
                  /\ UNCHANGED formMicrotasks
          /\ UNCHANGED << formMessage, messagesMade >>
  /\ UNCHANGED << formNow, fieldValue, fieldLabel, minlength, formDataConverts, mailtoOpened,
                  nonFormVars >>

\* Timer j can fire: it is due, and no pending timer is due before it.
CanFire(j) ==
  /\ formMicrotasks = << >>
  /\ j \in 1..Len(formTimers)
  /\ formTimers[j].due <= formNow
  /\ \A l \in 1..Len(formTimers) : formTimers[l].due >= formTimers[j].due

\* The timer of submitFormData fires: resolve()
SubmitDelayElapsed(j) ==
  /\ CanFire(j)
  /\ formTimers[j].kind = "submitDelay"
  /\ formTimers' = RemoveAt(formTimers, j)
  /\ formMicrotasks' = Append(formMicrotasks, "openMail")
  /\ UNCHANGED << formNow, fieldValue, fieldError, fieldClass, fieldLabel,
                  minlength, formDataConverts, submitBtn, formMessage,
                  messagesMade, submits, submitCalls, mailtoOpened,
                  nonFormVars >>

\* submitFormData after its await: window.location.href = `mailto:...`
OpenMail ==
  /\ formMicrotasks # << >>
  /\ Head(formMicrotasks) = "openMail"
  /\ mailtoOpened' = mailtoOpened + 1
  /\ formMicrotasks' = Append(Tail(formMicrotasks), "success")
  /\ UNCHANGED << formNow, fieldValue, fieldError, fieldClass, fieldLabel,
                  minlength, formDataConverts, submitBtn, formMessage,
                  messagesMade, formTimers, submits, submitCalls,
                  nonFormVars >>

\* handleFormSubmission after `await submitFormData(data)` fulfilled.
SubmitSucceeded ==
  /\ formMicrotasks # << >>
  /\ Head(formMicrotasks) = "success"
  /\ formMicrotasks' = Tail(formMicrotasks)
  /\ submitBtn' = setSubmitButtonState(submitBtn, "success")
  /\ showFormMessage("Message sent successfully!", "success")
  /\ formTimers' =
       formTimers \o << MessageTimer,
                        FormTimer("resetAfterSuccess", formNow + ResetDelay,
                                  0) >>
  /\ UNCHANGED << formNow, fieldValue, fieldError, fieldClass, fieldLabel,
                  minlength, formDataConverts, submits, submitCalls, mailtoOpened,
                  nonFormVars >>

\* handleFormSubmission's catch block, after submitFormData rejected.
SubmitFailed ==
  /\ formMicrotasks # << >>
  /\ Head(formMicrotasks) = "catch"
  /\ formMicrotasks' = Tail(formMicrotasks)
  /\ submitBtn' = setSubmitButtonState(submitBtn, "error")
  /\ showFormMessage("Failed to send message. Please try again.", "error")
  /\ formTimers' =
       formTimers \o << MessageTimer,
                        FormTimer("resetAfterError", formNow + ResetDelay,
                                  0) >>
  /\ UNCHANGED << formNow, fieldValue, fieldError, fieldClass, fieldLabel,
                  minlength, formDataConverts, submits, submitCalls, mailtoOpened,
                  nonFormVars >>

\* The timer set after a success fires: form.reset(), the button back to
\* default, clearAllFieldErrors(form).
ResetAfterSuccess(j) ==
  /\ CanFire(j)
  /\ formTimers[j].kind = "resetAfterSuccess"
  /\ formTimers' = RemoveAt(formTimers, j)
  /\ fieldValue' = EmptyForm
  /\ submitBtn' = setSubmitButtonState(submitBtn, "default")
  /\ fieldError' = NoFieldErrors
  /\ fieldClass' = NoFieldErrors
  /\ UNCHANGED << formNow, fieldLabel, minlength, formDataConverts, formMessage,
                  messagesMade, formMicrotasks, submits, submitCalls,
                  mailtoOpened, nonFormVars >>

\* The timer set after a failure fires: the button back to default.
ResetAfterError(j) ==
  /\ CanFire(j)
  /\ formTimers[j].kind = "resetAfterError"
  /\ formTimers' = RemoveAt(formTimers, j)
  /\ submitBtn' = setSubmitButtonState(submitBtn, "default")
  /\ UNCHANGED << formNow, fieldValue, fieldError, fieldClass, fieldLabel,
                  minlength, formDataConverts, formMessage, messagesMade,
                  formMicrotasks, submits, submitCalls, mailtoOpened,
                  nonFormVars >>

\* The timer of showFormMessage fires: the message is removed if it is
\* still in the page.
RemoveMessage(j) ==
  /\ CanFire(j)
  /\ formTimers[j].kind = "removeMessage"
  /\ formTimers' = RemoveAt(formTimers, j)
  /\ formMessage' =
       IF formMessage.id = formTimers[j].id THEN NoMessage ELSE formMessage
  /\ UNCHANGED << formNow, fieldValue, fieldError, fieldClass, fieldLabel,
                  minlength, formDataConverts, submitBtn, messagesMade,
                  formMicrotasks, submits, submitCalls, mailtoOpened,
                  nonFormVars >>

\* Time passes, between two tasks. Past the last step at which an event of
\* the user is followed, the clock goes on only up to the next timer due.
FormTick ==
  /\ formMicrotasks = << >>
  /\ \/ formNow < MaxFormTicks * FormStep
     \/ /\ formTimers # << >>
        /\ \A j \in 1..Len(formTimers) : formTimers[j].due > formNow
  /\ formNow' = formNow + FormStep
  /\ UNCHANGED << fieldValue, fieldError, fieldClass, fieldLabel, minlength, formDataConverts,
                  submitBtn, formMessage, messagesMade,
                  formTimers, formMicrotasks, submits, submitCalls,
                  mailtoOpened, nonFormVars >>

\* The most timers that can be pending at once.
MaxFormTimers == 3 * MaxSubmits

\* The steps of the form.
FormNext ==
  \/ \E f \in FieldNames : \E value \in FieldValues(f) : Input(f, value)
  \/ \E f \in FieldNames : Blur(f)
  \/ \E f \in FieldNames : Invalid(f)
  \/ Submit
  \/ \E j \in 1..MaxFormTimers : SubmitDelayElapsed(j)
  \/ OpenMail
  \/ SubmitSucceeded
  \/ SubmitFailed
  \/ \E j \in 1..MaxFormTimers : ResetAfterSuccess(j)
  \/ \E j \in 1..MaxFormTimers : ResetAfterError(j)
  \/ \E j \in 1..MaxFormTimers : RemoveMessage(j)
  \/ FormTick

FormSpec == FormInit /\ [][FormNext]_vars

\* The event loop: time passes, a timer that is due fires, and the
\* continuation of a settled await runs.
FairFormSpec ==
  /\ FormSpec
  /\ WF_vars(FormTick)
  /\ WF_vars(\E j \in 1..MaxFormTimers : SubmitDelayElapsed(j))
  /\ WF_vars(\E j \in 1..MaxFormTimers : ResetAfterSuccess(j))
  /\ WF_vars(\E j \in 1..MaxFormTimers : ResetAfterError(j))
  /\ WF_vars(\E j \in 1..MaxFormTimers : RemoveMessage(j))
  /\ WF_vars(OpenMail) /\ WF_vars(SubmitSucceeded) /\ WF_vars(SubmitFailed)

\* The submitFormData calls that have not settled.
InFlight ==
  Cardinality({j \in 1..Len(formTimers) : formTimers[j].kind = "submitDelay"})
    + Cardinality({j \in 1..Len(formMicrotasks) :
                     formMicrotasks[j] = "openMail"})

\* C19 (as claimed): while a submitFormData call has not settled the
\* submit button is disabled, whatever timers fire and whatever submit
\* events come, and at most one call is in flight.
C19_DisabledWhileInFlight ==
  []((InFlight >= 1 => submitBtn.disabled) /\ InFlight <= 1)

\* C20: a submit event with a required field that fails validateField
\* shows the form error message and ends there: submitFormData is not
\* called, no continuation is queued, and the button is left as it was.
C20_InvalidFormNotSubmitted ==
  [][(submits' = submits + 1
        /\ \E f \in FieldNames : validateField(Field(f), fieldValue'[f]) # "")
       => /\ formMessage'.type = "error"
          /\ formMessage'.text = "Please correct the errors above"
          /\ formMessage'.id = messagesMade'
          /\ submitCalls' = submitCalls
          /\ formMicrotasks' = formMicrotasks
          /\ \A j \in 1..Len(formTimers') :
               formTimers'[j].kind = "submitDelay"
                 => \E l \in 1..Len(formTimers) : formTimers[l] = formTimers'[j]
          /\ submitBtn' = submitBtn
          /\ submitBtn'.class \notin {"loading", "success"}]_vars

\* C20 witness: with a valid email and a valid message typed, a submit
\* event with a name that is too short showed the form error and left the
\* button as the page came; submitFormData was not called.
C20_Witness ==
  /\ submits = 1 /\ submitCalls = 0
  /\ fieldError["name"] = "Name must be at least 2 characters"
  /\ fieldError["email"] = "" /\ fieldError["message"] = ""
  /\ formMessage.text = "Please correct the errors above"
  /\ submitBtn = DefaultButton

\* The pending timers that will set the button back to default.
PendingResets ==
  {j \in 1..Len(formTimers) :
     formTimers[j].kind \in {"resetAfterSuccess", "resetAfterError"}}
\* The valid submissions whose success or error state has been shown: the
\* submitFormData calls that settled and whose continuation has run.
StatesShown ==
  submitCalls - InFlight
    - Cardinality({j \in 1..Len(formMicrotasks) :
                     formMicrotasks[j] \in {"success", "catch"}})
\* The valid submissions whose reset timer has fired.
ResetsDone == StatesShown - Cardinality(PendingResets)
\* The button is in the default enabled state: no state class, enabled,
\* its text "Send Message" on display and its spinner not.
ButtonIsDefault ==
  /\ submitBtn.class = "" /\ ~submitBtn.disabled
  /\ submitBtn.text = "Send Message"
  /\ submitBtn.textDisplay # "none"
  /\ submitBtn.loadingDisplay # "inline-flex"

\* C21: every valid submission is followed by its success or error state
\* and then by the firing of a timer set for 3000 ms after that state was
\* shown, which leaves the button in the default enabled state and, after
\* a success, the form reset and every field error cleared; a timer that
\* sets the button back ends in no other way, and a disabled button does
\* not stay disabled.
C21_ButtonReturnsToDefault ==
  /\ \A n \in 1..MaxSubmits : (submitCalls >= n) ~> (ResetsDone >= n)
  /\ submitBtn.disabled ~> ButtonIsDefault
  /\ [][StatesShown' > StatesShown
          => /\ StatesShown' = StatesShown + 1
             /\ submitBtn'.class \in {"success", "error"}
             /\ Len(formTimers') = Len(formTimers) + 2
             /\ formTimers'[Len(formTimers')] =
                  FormTimer(IF submitBtn'.class = "success"
                              THEN "resetAfterSuccess"
                              ELSE "resetAfterError",
                            formNow + ResetDelay, 0)]_vars
  /\ [][Cardinality(PendingResets') < Cardinality(PendingResets)
          => \E j \in PendingResets :
               /\ formTimers' = RemoveAt(formTimers, j)
               /\ formNow >= formTimers[j].due
               /\ ButtonIsDefault'
               /\ formTimers[j].kind = "resetAfterSuccess"
                    => /\ fieldValue' = EmptyForm
                       /\ fieldError' = NoFieldErrors
                       /\ fieldClass' = NoFieldErrors]_vars

\* C21 witness: in a form with labels, a valid submission failed
\* (submitFormData rejected) and another succeeded; the reset timers of
\* both have fired, the button is back to default and the form is empty,
\* with no field error.
C21_Witness ==
  /\ submitCalls = 2 /\ mailtoOpened = 1 /\ ResetsDone = 2
  /\ formTimers = << >>
  /\ ButtonIsDefault
  /\ fieldValue = EmptyForm /\ fieldError = NoFieldErrors
  /\ fieldClass = NoFieldErrors
  /\ fieldLabel["name"] = "Your Name"

\* ========================================================= initializeApp
\* Number of .nav__link elements, and of steps of the clock.
MaxNavLinks == 2
MaxInitTicks == 5
\* minLoadTime of initLoader, the delay of the fallback of waitForFonts, and
\* the delays after which hideLoader removes the loading screen from the
\* DOM and calls triggerEntranceAnimations.
MinLoadTime == 1500
FontsFallbackDelay == 100
RemoveLoaderDelay == 500
EntranceDelay == 200
\* One step of the clock.
InitClockStep == MinLoadTime \div 3

\* The steps of initializeApp's try block, in order.
InitSteps ==
  << "setupUserPreferences", "initLoader", "initNavigation",
     "initScrollSystem", "initAnimations", "initInteractions",
     "initTypewriter", "initGitHubIntegration", "initContactForm",
     "initCursorFollower", "initParticleSystem", "initKeyboardNavigation",
     "initPerformanceMonitoring", "updateCurrentYear" >>
\* The APIs a browser may lack.
Apis ==
  { "matchMedia", "IntersectionObserver", "MutationObserver",
    "PerformanceObserver" }
\* The APIs a step uses without testing for them: window.matchMedia in
\* setupUserPreferences, new IntersectionObserver in initScrollSpy
\* (initNavigation) and setupIntersectionAnimations (initInteractions), new
\* MutationObserver in setupAnimationObserver (initAnimations), new
\* PerformanceObserver in initPerformanceMonitoring. initScrollReveal
\* (initScrollSystem) tests window.IntersectionObserver first.
Uses(step) ==
  CASE step = "setupUserPreferences" -> {"matchMedia"}
    [] step = "initNavigation" -> {"IntersectionObserver"}
    [] step = "initAnimations" -> {"MutationObserver"}
    [] step = "initInteractions" -> {"IntersectionObserver"}
    [] step = "initPerformanceMonitoring" -> {"PerformanceObserver"}
    [] OTHER -> {}
\* The step throws on this browser.
Throws(step) == Uses(step) \cap missingApis # {}
\* How the stats fetch ends: every repository fetched and rendered; every
\* request failed, an empty result rendered; a result without a name made
\* updateProjectStats throw into initGitHubIntegration's catch block.
GitHubOutcomes == {"rendered", "allRequestsFailed", "renderThrew"}

\* initializeApp is running synchronous code.
Running == initPc = "running"

\* A timer of the loader.
InitTimer(kind, due) == [kind |-> kind, due |-> due]
\* Math.max(0, minLoadTime - loadTime)
RemainingTime(loadTime) ==
  IF MinLoadTime - loadTime > 0 THEN MinLoadTime - loadTime ELSE 0

\* handleInitializationError: if (App.elements.loadingScreen)
\* loadingScreen.classList.add("hidden")
handleInitializationError(screen) ==
  IF screen.exists THEN [screen EXCEPT !.hidden = TRUE] ELSE screen

\* Mutant: no listener is added.
enableBasicFunctionality_None(links) == links

\* enableBasicFunctionality: every nav link gets the smooth-scroll click
\* listener.
enableBasicFunctionality(links) ==
  [l \in DOMAIN links |-> Append(links[l], "smoothScroll")]

\* initNavigation: link.addEventListener("click", handleNavLinkClick)
initNavigation(links) ==
  [l \in DOMAIN links |-> Append(links[l], "handleNavLinkClick")]

\* initLoader up to its await: startTime, and the three promises of its
\* Promise.all: waitForFonts (a timer when document has no fonts),
\* waitForImages (resolved when every eager image is complete) and the
\* minLoadTime timer.
initLoader(imagesComplete) ==
  [startTime |-> initNow, minLoadTime |-> FALSE, fonts |-> FALSE,
   images |-> imagesComplete]
LoaderTimers ==
  {InitTimer("minLoadTime", initNow + MinLoadTime)}
    \cup (IF fontsInDocument THEN {}
          ELSE {InitTimer("fontsFallback", initNow + FontsFallbackDelay)})

\* All three promises of initLoader's Promise.all are resolved.
AllResolved(l) == l.minLoadTime /\ l.fonts /\ l.images

\* The page as the script has loaded, on some browser.
InitInit ==
  /\ initNow = 0
  /\ initPc = "loading"
  /\ nextStep = 1
  /\ missingApis \in SUBSET Apis
  /\ initError = "none"
  /\ \E e \in BOOLEAN :
       loadingScreen = [exists |-> e, hidden |-> FALSE, inDom |-> e]
  /\ \E n \in 0..MaxNavLinks : navLinks = [l \in 1..n |-> << >>]
  /\ isLoading = TRUE
  /\ githubOutcome \in GitHubOutcomes
  /\ githubPromise = "none"
  /\ statsHidden = FALSE
  /\ fontsInDocument \in BOOLEAN
  /\ loader = NoLoader
  /\ initTimers = {}
  /\ NoGitHub /\ NoTypewriter /\ NoThrottle /\ NoDebounce /\ NoForm

\* DOMContentLoaded: the listener calls initializeApp().
DOMContentLoaded ==
  /\ initPc = "loading"
  /\ initPc' = "running"
  /\ UNCHANGED << initNow, nextStep, missingApis, initError, loadingScreen,
                  navLinks, isLoading, githubOutcome, githubPromise,
                  statsHidden, fontsInDocument, loader, initTimers,
                  nonInitVars >>

\* The next step of the try block; if it throws, the catch block. A step
\* that throws has done what it does before the call that throws:
\* initNavigation has added its listeners before initScrollSpy.
RunStep ==
  /\ Running
  /\ LET step == InitSteps[nextStep]
         links == IF step = "initNavigation" THEN initNavigation(navLinks)
                  ELSE navLinks
         awaits == step = "initLoader" /\ loadingScreen.exists
         last == nextStep = Len(InitSteps)
     IN  IF Throws(step)
           THEN /\ initError' = step
                /\ loadingScreen' = handleInitializationError(loadingScreen)
                /\ navLinks' = enableBasicFunctionality(links)
                /\ initPc' = "failed"
                /\ UNCHANGED << nextStep, isLoading, githubPromise, loader,
                                initTimers >>
         ELSE /\ navLinks' = links
              /\ githubPromise' =
                   IF step = "initGitHubIntegration" THEN "pending"
                   ELSE githubPromise
              /\ IF awaits
                   THEN \E imagesComplete \in BOOLEAN :
                          /\ loader' = initLoader(imagesComplete)
                          /\ initTimers' = initTimers \cup LoaderTimers
                 ELSE UNCHANGED << loader, initTimers >>
              /\ initPc' = IF awaits THEN "awaitLoader"
                           ELSE IF last THEN "ready" ELSE "running"
              /\ nextStep' = IF last THEN nextStep ELSE nextStep + 1
              /\ isLoading' = IF last THEN FALSE ELSE isLoading
              /\ UNCHANGED << initError, loadingScreen >>
  /\ UNCHANGED << initNow, missingApis, githubOutcome, statsHidden,
                  fontsInDocument, nonInitVars >>

\* One of the promises of initLoader's Promise.all is resolved, which
\* leaves the loader as `l` and the timers as `timers`. If it was the last,
\* initLoader goes on: it sets the timer of hideLoader and returns, and
\* initializeApp goes on.
LoaderResolved(l, timers) ==
  /\ loader' = l
  /\ IF AllResolved(l)
       THEN /\ initTimers' =
                 timers
                   \cup {InitTimer("hideLoader",
                                   initNow
                                     + RemainingTime(initNow - l.startTime))}
            /\ initPc' = "running"
     ELSE /\ initTimers' = timers
          /\ UNCHANGED initPc
  /\ UNCHANGED << initNow, nextStep, missingApis, initError, loadingScreen,
                  navLinks, isLoading, githubOutcome, githubPromise,
                  statsHidden, fontsInDocument, nonInitVars >>

\* The minLoadTime timer fires.
MinLoadTimeElapsed ==
  /\ initPc = "awaitLoader"
  /\ \E t \in initTimers :
       /\ t.kind = "minLoadTime" /\ t.due <= initNow
       /\ LoaderResolved([loader EXCEPT !.minLoadTime = TRUE],
                         initTimers \ {t})

\* The timer of waitForFonts fires, on a browser without document.fonts.
FontsFallbackElapsed ==
  /\ initPc = "awaitLoader"
  /\ \E t \in initTimers :
       /\ t.kind = "fontsFallback" /\ t.due <= initNow
       /\ LoaderResolved([loader EXCEPT !.fonts = TRUE], initTimers \ {t})

\* document.fonts.ready is fulfilled.
FontsReady ==
  /\ initPc = "awaitLoader"
  /\ fontsInDocument /\ ~loader.fonts
  /\ LoaderResolved([loader EXCEPT !.fonts = TRUE], initTimers)

\* The last eager image that was not complete has loaded or failed.
ImagesLoaded ==
  /\ initPc = "awaitLoader"
  /\ ~loader.images
  /\ LoaderResolved([loader EXCEPT !.images = TRUE], initTimers)

\* hideLoader: the loading screen gets "hidden", and the timers to remove
\* it and to trigger the entrance animations are set.
HideLoader ==
  /\ ~Running
  /\ \E t \in initTimers :
       /\ t.kind = "hideLoader" /\ t.due <= initNow
       /\ IF loadingScreen.exists
            THEN /\ loadingScreen' = [loadingScreen EXCEPT !.hidden = TRUE]
                 /\ initTimers' =
                      (initTimers \ {t})
                        \cup {InitTimer("removeLoader",
                                        initNow + RemoveLoaderDelay),
                              InitTimer("entrance", initNow + EntranceDelay)}
          ELSE /\ initTimers' = initTimers \ {t}
               /\ UNCHANGED loadingScreen
  /\ UNCHANGED << initNow, initPc, nextStep, missingApis, initError, navLinks,
                  isLoading, githubOutcome, githubPromise, statsHidden,
                  fontsInDocument, loader, nonInitVars >>

\* The first timer of hideLoader: the loading screen is removed from the
\* DOM.
RemoveLoader ==
  /\ ~Running
  /\ \E t \in initTimers :
       /\ t.kind = "removeLoader" /\ t.due <= initNow
       /\ initTimers' = initTimers \ {t}
  /\ loadingScreen' = [loadingScreen EXCEPT !.inDom = FALSE]
  /\ UNCHANGED << initNow, initPc, nextStep, missingApis, initError, navLinks,
                  isLoading, githubOutcome, githubPromise, statsHidden,
                  fontsInDocument, loader, nonInitVars >>

\* The second timer of hideLoader: triggerEntranceAnimations, which
\* changes the hero elements only.
EntranceAnimations ==
  /\ ~Running
  /\ \E t \in initTimers :
       /\ t.kind = "entrance" /\ t.due <= initNow
       /\ initTimers' = initTimers \ {t}
  /\ UNCHANGED << initNow, initPc, nextStep, missingApis, initError,
                  loadingScreen, navLinks, isLoading, githubOutcome,
                  githubPromise, statsHidden, fontsInDocument, loader,
                  nonInitVars >>

\* initGitHubIntegration after its await: the stats are rendered, or its
\* own catch block calls hideGitHubStats; its promise is fulfilled, and
\* initializeApp, which did not await it, is not resumed.
GitHubSettled ==
  /\ ~Running
  /\ githubPromise = "pending"
  /\ githubPromise' = "fulfilled"
  /\ statsHidden' = (statsHidden \/ githubOutcome = "renderThrew")
  /\ UNCHANGED << initNow, initPc, nextStep, missingApis, initError,
                  loadingScreen, navLinks, isLoading, githubOutcome,
                  fontsInDocument, loader, initTimers, nonInitVars >>

\* The window's "unhandledrejection" listener, for a reason whose message
\* includes "GitHub": hideGitHubStats().
UnhandledRejection ==
  /\ ~Running
  /\ statsHidden' = TRUE
  /\ UNCHANGED << initNow, initPc, nextStep, missingApis, initError,
                  loadingScreen, navLinks, isLoading, githubOutcome,
                  githubPromise, fontsInDocument, loader, initTimers,
                  nonInitVars >>

\* Time passes, between two tasks.
InitTick ==
  /\ ~Running
  /\ initPc # "loading"
  /\ initNow < MaxInitTicks * InitClockStep
  /\ initNow' = initNow + InitClockStep
  /\ UNCHANGED << initPc, nextStep, missingApis, initError, loadingScreen,
                  navLinks, isLoading, githubOutcome, githubPromise,
                  statsHidden, fontsInDocument, loader, initTimers,
                  nonInitVars >>

InitNext ==
  \/ DOMContentLoaded
  \/ RunStep
  \/ MinLoadTimeElapsed
  \/ FontsFallbackElapsed
  \/ FontsReady
  \/ ImagesLoaded
  \/ HideLoader
  \/ RemoveLoader
  \/ EntranceAnimations
  \/ GitHubSettled
  \/ UnhandledRejection
  \/ InitTick

InitSpec == InitInit /\ [][InitNext]_vars

\* The number of the first step that throws on this browser, 0 if none.
FirstThrow ==
  IF \E k \in 1..Len(InitSteps) : Throws(InitSteps[k])
    THEN CHOOSE k \in 1..Len(InitSteps) :
           /\ Throws(InitSteps[k])
           /\ \A j \in 1..(k - 1) : ~Throws(InitSteps[j])
  ELSE 0

\* C22: a step of initializeApp that throws is caught at once: the page is
\* then in the failed state with the loading screen, if the page has one,
\* of class "hidden" and every navigation link holding the smooth-scroll
\* click listener, once; that state is final, and only a step that threw
\* leads to it. However the GitHub stats fetch ends, and whenever
\* hideGitHubStats runs, that changes neither the state of initializeApp
\* nor the loading screen nor the links, and without a throwing step the
\* app becomes ready.
C22_FailureEndsUsable ==
  /\ [](initPc = "failed"
          => /\ FirstThrow # 0 /\ initError = InitSteps[FirstThrow]
             /\ initError # "initGitHubIntegration"
             /\ loadingScreen.exists => loadingScreen.hidden
             /\ \A l \in DOMAIN navLinks :
                  Cardinality({j \in DOMAIN navLinks[l] :
                                 navLinks[l][j] = "smoothScroll"}) = 1
             /\ isLoading)
  /\ [](initPc \in {"running", "awaitLoader", "ready"}
          => /\ initError = "none"
             /\ FirstThrow = 0 \/ nextStep <= FirstThrow)
  /\ [](initPc = "ready" => FirstThrow = 0 /\ ~isLoading)
  /\ [][initPc = "failed" => initPc' = "failed"]_vars
  /\ [][(githubPromise' # githubPromise \/ statsHidden' # statsHidden)
          => /\ initError' = initError
             /\ loadingScreen' = loadingScreen
             /\ navLinks' = navLinks
             /\ initPc = "failed" <=> initPc' = "failed"]_vars

\* C22 witness: on a page with a loading screen and two links,
\* initPerformanceMonitoring threw after initNavigation had run; the
\* stats fetch then ended in initGitHubIntegration's catch block.
C22_Witness ==
  /\ initPc = "failed" /\ initError = "initPerformanceMonitoring"
  /\ loadingScreen.exists /\ loadingScreen.hidden /\ loadingScreen.inDom
  /\ Len(navLinks) = 2
  /\ navLinks[1] = << "handleNavLinkClick", "smoothScroll" >>
  /\ githubOutcome = "renderThrew" /\ githubPromise = "fulfilled"
  /\ statsHidden
====
